---- MODULE Spec2Model ----
(***************************************************************************)
(* A model of the pm5 CSAFE client library: the frame codec and response   *)
(* parser of package csafe (src/csafe/commands.go) and the transaction     *)
(* engine of package pm5 (src/pm5.go), whose public operations are called  *)
(* from several goroutines against one session.                            *)
(***************************************************************************)
EXTENDS Integers, Sequences, FiniteSets, TLC

(***************************************************************************)
(* Protocol constants (src/unnamed/part_001, the csafe constants file).    *)
(***************************************************************************)
ExtendedFrameStartFlag == 240
StandardFrameStartFlag == 241
StopFrameFlag == 242
ByteStuffingFlag == 243
MaxFrameLength == 120
MinInterframeGapMs == 50
StatusFrameToggleMask == 128
StatusPrevFrameStatusMask == 48
StatusStateMask == 15
PrevFrameStatusOK == 0
PrevFrameStatusReject == 16
PrevFrameStatusBad == 32
PrevFrameStatusNotReady == 48
StateMachineError == 0
CmdGetStatus == 128
CmdReset == 129

(***************************************************************************)
(* Bounds of the model.                                                    *)
(***************************************************************************)
\* longest contents enumerated exhaustively over CodecBytes
MaxContentsLen == 3
\* goroutines calling the session
NumThreads == 2
\* public operations invoked in one behaviour
MaxCalls == 3
\* last instant of the model's clock, in ms
MaxTime == 75
\* longest byte string handed to DecodeFrame and ParseResponse directly,
\* not counting a start and a stop sentinel put around it
MaxRawLen == 4
\* longest contents of the frames that probe the length limit
MaxLongLen == 121
\* most data bytes handed to a command builder: one more than a byte counts
MaxDataLen == 256
\* most inner commands handed to BuildPMCommand
MaxCommands == 2

(***************************************************************************)
(* Bytes.  Go's byte arithmetic, on 0..255.                                *)
(***************************************************************************)
RECURSIVE Xor(_, _)
Xor(a, b) ==
    IF a = 0 THEN b
    ELSE IF b = 0 THEN a
    ELSE (((a % 2) + (b % 2)) % 2) + (2 * Xor(a \div 2, b \div 2))

RECURSIVE BitAnd(_, _)
BitAnd(a, b) ==
    IF a = 0 \/ b = 0 THEN 0
    ELSE ((a % 2) * (b % 2)) + (2 * BitAnd(a \div 2, b \div 2))

\* checksum := byte(0); for _, b := range contents { checksum ^= b }
\* (the fold is split in halves to keep the evaluation shallow: ^ is associative)
RECURSIVE XorAll(_)
XorAll(s) ==
    IF Len(s) = 0 THEN 0
    ELSE IF Len(s) = 1 THEN s[1]
    ELSE LET h == Len(s) \div 2
         IN  Xor(XorAll(SubSeq(s, 1, h)), XorAll(SubSeq(s, h + 1, Len(s))))

Slice(s, from, to) == SubSeq(s, from, to)

(***************************************************************************)
(* Frame codec: src/csafe/commands.go                                      *)
(***************************************************************************)
NoFrame == [Extended |-> FALSE, Destination |-> 0, Source |-> 0, Contents |-> <<>>]

\* stuffAndWrite with the case for StopFrameFlag left out
stuffAndWrite_NoStop(buf, b) ==
    CASE b = ExtendedFrameStartFlag -> buf \o <<ByteStuffingFlag, 0>>
      [] b = StandardFrameStartFlag -> buf \o <<ByteStuffingFlag, 1>>
      [] b = ByteStuffingFlag -> buf \o <<ByteStuffingFlag, 3>>
      [] OTHER -> Append(buf, b)

stuffAndWrite(buf, b) ==
    CASE b = ExtendedFrameStartFlag -> buf \o <<ByteStuffingFlag, 0>>
      [] b = StandardFrameStartFlag -> buf \o <<ByteStuffingFlag, 1>>
      [] b = StopFrameFlag -> buf \o <<ByteStuffingFlag, 2>>
      [] b = ByteStuffingFlag -> buf \o <<ByteStuffingFlag, 3>>
      [] OTHER -> Append(buf, b)

\* for _, b := range f.Contents { stuffAndWrite(&buf, b) }: what the loop
\* appends to buf (the loop over s is split in halves to keep the evaluation
\* shallow; each byte is stuffed on its own, so the halves concatenate)
RECURSIVE StuffSeq(_)
StuffSeq(s) ==
    IF Len(s) = 0 THEN <<>>
    ELSE IF Len(s) = 1 THEN stuffAndWrite(<<>>, s[1])
    ELSE LET h == Len(s) \div 2
         IN  StuffSeq(SubSeq(s, 1, h)) \o StuffSeq(SubSeq(s, h + 1, Len(s)))

StuffContents(buf, s) == buf \o StuffSeq(s)

\* EncodeFrame, had it written the checksum without stuffing
EncodeFrame_RawChecksum(f) ==
    LET start == IF f.Extended
                 THEN stuffAndWrite(stuffAndWrite(<<ExtendedFrameStartFlag>>,
                                                  f.Destination), f.Source)
                 ELSE <<StandardFrameStartFlag>>
        checksum == XorAll(f.Contents)
        body == StuffContents(start, f.Contents)
        result == Append(Append(body, checksum), StopFrameFlag)
    IN  IF Len(result) > MaxFrameLength
        THEN [bytes |-> <<>>, err |-> "ErrFrameTooLong"]
        ELSE [bytes |-> result, err |-> "nil"]

\* EncodeFrame, had it returned the encoding whatever its length
EncodeFrame_NoLimit(f) ==
    LET start == IF f.Extended
                 THEN stuffAndWrite(stuffAndWrite(<<ExtendedFrameStartFlag>>,
                                                  f.Destination), f.Source)
                 ELSE <<StandardFrameStartFlag>>
        checksum == XorAll(f.Contents)
        body == StuffContents(start, f.Contents)
        result == Append(stuffAndWrite(body, checksum), StopFrameFlag)
    IN  [bytes |-> result, err |-> "nil"]

\* EncodeFrame, had it refused a frame of exactly MaxFrameLength bytes
EncodeFrame_AtLimit(f) ==
    LET start == IF f.Extended
                 THEN stuffAndWrite(stuffAndWrite(<<ExtendedFrameStartFlag>>,
                                                  f.Destination), f.Source)
                 ELSE <<StandardFrameStartFlag>>
        checksum == XorAll(f.Contents)
        body == StuffContents(start, f.Contents)
        result == Append(stuffAndWrite(body, checksum), StopFrameFlag)
    IN  IF Len(result) >= MaxFrameLength
        THEN [bytes |-> <<>>, err |-> "ErrFrameTooLong"]
        ELSE [bytes |-> result, err |-> "nil"]

EncodeFrame(f) ==
    LET start == IF f.Extended
                 THEN stuffAndWrite(stuffAndWrite(<<ExtendedFrameStartFlag>>,
                                                  f.Destination), f.Source)
                 ELSE <<StandardFrameStartFlag>>
        checksum == XorAll(f.Contents)
        body == StuffContents(start, f.Contents)
        result == Append(stuffAndWrite(body, checksum), StopFrameFlag)
    IN  IF Len(result) > MaxFrameLength
        THEN [bytes |-> <<>>, err |-> "ErrFrameTooLong"]
        ELSE [bytes |-> result, err |-> "nil"]

\* the loop of unstuffBytes from 1-based position i (Go index i-1)
RECURSIVE unstuffFrom(_, _, _)
unstuffFrom(data, i, result) ==
    IF i > Len(data) THEN [bytes |-> result, err |-> "nil"]
    ELSE IF data[i] = ByteStuffingFlag
    THEN IF i + 1 > Len(data)
         THEN [bytes |-> <<>>, err |-> "ErrInvalidStuffByte"]
         ELSE CASE data[i + 1] = 0 ->
                     unstuffFrom(data, i + 2, Append(result, ExtendedFrameStartFlag))
                [] data[i + 1] = 1 ->
                     unstuffFrom(data, i + 2, Append(result, StandardFrameStartFlag))
                [] data[i + 1] = 2 ->
                     unstuffFrom(data, i + 2, Append(result, StopFrameFlag))
                [] data[i + 1] = 3 ->
                     unstuffFrom(data, i + 2, Append(result, ByteStuffingFlag))
                [] OTHER -> [bytes |-> <<>>, err |-> "ErrInvalidStuffByte"]
    ELSE unstuffFrom(data, i + 1, Append(result, data[i]))

unstuffBytes(data) == unstuffFrom(data, 1, <<>>)

DecodeError(e) == [frame |-> NoFrame, err |-> e]

\* the frame fields once the interior is unstuffed (commands.go:359-396)
DecodeUnstuffed(extended, unstuffed) ==
    LET offset == IF extended THEN 2 ELSE 0
        n == Len(unstuffed)
    IN  IF n < 1 THEN DecodeError("ErrFrameTooShort")
        ELSE IF extended /\ n < 3 THEN DecodeError("ErrFrameTooShort")
        ELSE IF n <= offset THEN DecodeError("ErrFrameTooShort")
        ELSE LET receivedChecksum == unstuffed[n]
                 contents == Slice(unstuffed, offset + 1, n - 1)
             IN  IF XorAll(contents) # receivedChecksum
                 THEN DecodeError("ErrInvalidChecksum")
                 ELSE [frame |-> [Extended |-> extended,
                                  Destination |-> IF extended THEN unstuffed[1] ELSE 0,
                                  Source |-> IF extended THEN unstuffed[2] ELSE 0,
                                  Contents |-> contents],
                       err |-> "nil"]

DecodeFrame(data) ==
    IF Len(data) < 4 THEN DecodeError("ErrFrameTooShort")
    ELSE IF data[1] \notin {ExtendedFrameStartFlag, StandardFrameStartFlag}
    THEN DecodeError("ErrInvalidStartFlag")
    ELSE IF data[Len(data)] # StopFrameFlag THEN DecodeError("ErrInvalidStopFlag")
    ELSE LET u == unstuffBytes(Slice(data, 2, Len(data) - 1))
         IN  IF u.err # "nil" THEN DecodeError(u.err)
             ELSE DecodeUnstuffed(data[1] = ExtendedFrameStartFlag, u.bytes)

(***************************************************************************)
(* Response parser: src/csafe/commands.go                                  *)
(***************************************************************************)
\* a test that knows the two get wrappers only
isPMWrapper_GetOnly(cmd) == cmd \in {126, 127}

isPMWrapper(cmd) == cmd \in {118, 119, 126, 127}

CommandResponse(cmd, byteCount, data, pm) ==
    [Command |-> cmd, ByteCount |-> byteCount, Data |-> data, PMResponses |-> pm]

\* the loop of parsePMWrapperData, from 1-based position i (Go offset i-1)
RECURSIVE parsePMFrom(_, _, _)
parsePMFrom(data, i, responses) ==
    IF i > Len(data) THEN responses
    ELSE LET cmd == data[i]
         IN  IF i + 1 > Len(data)
             THEN Append(responses, CommandResponse(cmd, 0, <<>>, <<>>))
             ELSE LET byteCount == data[i + 1]
                      avail == Len(data) - (i + 1)
                      take == IF byteCount > avail THEN avail ELSE byteCount
                      cmdData == Slice(data, i + 2, i + 1 + take)
                  IN  parsePMFrom(data, i + 2 + take,
                          Append(responses, CommandResponse(cmd, byteCount, cmdData, <<>>)))

\* a walk of the wrapper's data that starts one byte late
parsePMWrapperData_SkipFirst(data) == parsePMFrom(data, 2, <<>>)

parsePMWrapperData(data) == parsePMFrom(data, 1, <<>>)

\* a parser that drops a record whose opcode or data is cut short
RECURSIVE parseFrom_DropTruncated(_, _, _)
parseFrom_DropTruncated(contents, i, responses) ==
    IF i > Len(contents) THEN responses
    ELSE LET cmd == contents[i]
         IN  IF i + 1 > Len(contents)
             THEN responses
             ELSE LET byteCount == contents[i + 1]
                      avail == Len(contents) - (i + 1)
                      data == Slice(contents, i + 2, i + 1 + byteCount)
                      pm == IF isPMWrapper(cmd) /\ Len(data) > 0
                            THEN parsePMWrapperData(data) ELSE <<>>
                  IN  IF byteCount > avail THEN responses
                      ELSE parseFrom_DropTruncated(contents, i + 2 + byteCount,
                               Append(responses, CommandResponse(cmd, byteCount, data, pm)))

\* the loop of ParseResponse, from 1-based position i (Go offset i-1)
RECURSIVE parseFrom(_, _, _)
parseFrom(contents, i, responses) ==
    IF i > Len(contents) THEN responses
    ELSE LET cmd == contents[i]
         IN  IF i + 1 > Len(contents)
             THEN Append(responses, CommandResponse(cmd, 0, <<>>, <<>>))
             ELSE LET byteCount == contents[i + 1]
                      avail == Len(contents) - (i + 1)
                      take == IF byteCount > avail THEN avail ELSE byteCount
                      data == Slice(contents, i + 2, i + 1 + take)
                      pm == IF isPMWrapper(cmd) /\ Len(data) > 0
                            THEN parsePMWrapperData(data) ELSE <<>>
                  IN  parseFrom(contents, i + 2 + take,
                          Append(responses, CommandResponse(cmd, byteCount, data, pm)))

NoResponse ==
    [Status |-> 0, FrameToggle |-> FALSE, PrevFrameStatus |-> 0, StateMachine |-> 0,
     CommandData |-> <<>>, isNil |-> TRUE]

\* a parser that takes the state from the previous-frame bits
ParseResponse_SwappedMasks(contents) ==
    IF Len(contents) < 1 THEN [resp |-> NoResponse, err |-> "ErrFrameTooShort"]
    ELSE [resp |-> [Status |-> contents[1],
                    FrameToggle |-> BitAnd(contents[1], StatusFrameToggleMask) # 0,
                    PrevFrameStatus |-> BitAnd(contents[1], StatusStateMask),
                    StateMachine |-> BitAnd(contents[1], StatusPrevFrameStatusMask),
                    CommandData |-> parseFrom(contents, 2, <<>>),
                    isNil |-> FALSE],
          err |-> "nil"]

ParseResponse(contents) ==
    IF Len(contents) < 1 THEN [resp |-> NoResponse, err |-> "ErrFrameTooShort"]
    ELSE [resp |-> [Status |-> contents[1],
                    FrameToggle |-> BitAnd(contents[1], StatusFrameToggleMask) # 0,
                    PrevFrameStatus |-> BitAnd(contents[1], StatusPrevFrameStatusMask),
                    StateMachine |-> BitAnd(contents[1], StatusStateMask),
                    CommandData |-> parseFrom(contents, 2, <<>>),
                    isNil |-> FALSE],
          err |-> "nil"]

(***************************************************************************)
(* Command builders: src/csafe/commands.go                                 *)
(***************************************************************************)
\* byte(n): the low 8 bits of an int
ByteOf(n) == n % 256

BuildCommand(cmd, data) ==
    IF BitAnd(cmd, 128) # 0 /\ Len(data) = 0 THEN <<cmd>>
    ELSE <<cmd, ByteOf(Len(data))>> \o data

\* the first loop of BuildPMCommand
RECURSIVE totalSize(_)
totalSize(commands) ==
    IF commands = <<>> THEN 0 ELSE Len(Head(commands)) + totalSize(Tail(commands))

\* the second loop of BuildPMCommand: the commands copied one after another
RECURSIVE copyAll(_)
copyAll(commands) ==
    IF commands = <<>> THEN <<>> ELSE Head(commands) \o copyAll(Tail(commands))

BuildPMCommand(wrapper, commands) ==
    <<wrapper, ByteOf(totalSize(commands))>> \o copyAll(commands)

(***************************************************************************)
(* State.                                                                  *)
(*   cframe, cstage, encoded, decoded : one run of the codec on a frame    *)
(*   input, parsed                    : bytes handed to DecodeFrame or to  *)
(*                                      ParseResponse, and the parse       *)
(*   bcall, built                     : one call of a command builder and  *)
(*                                      the bytes it returned              *)
(*   connected, lastCommand, mu       : the PM5 struct (mu: 0 when free,   *)
(*                                      else the goroutine holding it)     *)
(*   now                              : the monotonic clock, in ms         *)
(*   pc, op, args, wakeAt, data, startIdx, stopIdx, ret                    *)
(*                                    : each goroutine's position in its   *)
(*                                      public operation and its locals    *)
(*   wStart                           : when the goroutine's Write began   *)
(*   callNo, acqNo, nCalls, nAcq, guardConn, nWrites, nReads, slept,       *)
(*   readOK, lcAtLock, prevEnd, gap, nDecodes, devCall, sent               *)
(*                                    : what has happened so far (call and *)
(*                                      lock order, device calls, writes)  *)
(*   pending, answers                 : the transport's input queue: the   *)
(*                                      requests whose response packet is  *)
(*                                      still to be read, oldest first,    *)
(*                                      and the request that the packet a  *)
(*                                      goroutine has read answers         *)
(*   callers, devPackets, tickSteps, surface, late                         *)
(*                                    : the environment: the goroutines    *)
(*                                      that use the session, the packets  *)
(*                                      the device may answer with, the    *)
(*                                      steps of the clock, the calls the  *)
(*                                      goroutines make, whether a packet  *)
(*                                      may arrive after its Read gave up  *)
(***************************************************************************)
VARIABLES cframe, cstage, encoded, decoded, input, parsed, bcall, built,
          connected, lastCommand, mu, now,
          pc, op, args, wakeAt, data, startIdx, stopIdx, ret, wStart,
          callNo, acqNo, nCalls, nAcq, guardConn, nWrites, nReads, slept,
          readOK, lcAtLock, prevEnd, gap, nDecodes, devCall, sent,
          pending, answers,
          callers, devPackets, tickSteps, surface, late

buildVars == <<bcall, built>>
codecVars == <<cframe, cstage, encoded, decoded, input, parsed, buildVars>>
progVars == <<connected, lastCommand, mu>>
localVars == <<pc, op, args, wakeAt, data, startIdx, stopIdx, ret, wStart>>
histVars == <<callNo, acqNo, nCalls, nAcq, guardConn, nWrites, nReads, slept,
              readOK, lcAtLock, prevEnd, gap>>
traceVars == <<nDecodes, devCall, sent>>
wireVars == <<pending, answers>>
envVars == <<callers, devPackets, tickSteps, surface, late>>
sessionVars == <<progVars, now, localVars, histVars, traceVars, wireVars, envVars>>
vars == <<codecVars, sessionVars>>

\* no builder has been called
NoCall == [fn |-> "none", cmd |-> 0, data |-> <<>>, commands |-> <<>>]
NoBuilt == [bytes |-> <<>>, done |-> FALSE]

BuildIdle ==
    /\ bcall = NoCall
    /\ built = NoBuilt

Threads == 1..NumThreads

\* the zero time.Time a new PM5 holds in lastCommand
ZeroTime == -1

\* no instant recorded yet
NoTime == -2

NoResult == [resp |-> NoResponse, err |-> "none"]

\* New(dev): a detached session, every goroutine outside any operation
SessionNew ==
    /\ connected = FALSE
    /\ lastCommand = ZeroTime
    /\ mu = 0
    /\ now = 0
    /\ pc = [t \in Threads |-> "idle"]
    /\ op = [t \in Threads |-> "none"]
    /\ args = [t \in Threads |-> <<>>]
    /\ wakeAt = [t \in Threads |-> 0]
    /\ data = [t \in Threads |-> <<>>]
    /\ startIdx = [t \in Threads |-> -1]
    /\ stopIdx = [t \in Threads |-> -1]
    /\ ret = [t \in Threads |-> NoResult]
    /\ callNo = [t \in Threads |-> 0]
    /\ acqNo = [t \in Threads |-> 0]
    /\ nCalls = 0
    /\ nAcq = 0
    /\ guardConn = [t \in Threads |-> FALSE]
    /\ nWrites = [t \in Threads |-> 0]
    /\ nReads = [t \in Threads |-> 0]
    /\ slept = [t \in Threads |-> FALSE]
    /\ readOK = [t \in Threads |-> FALSE]
    /\ nDecodes = [t \in Threads |-> 0]
    /\ devCall = [t \in Threads |-> "none"]
    /\ sent = [t \in Threads |-> <<>>]
    /\ pending = <<>>
    /\ answers = [t \in Threads |-> 0]
    /\ lcAtLock = [t \in Threads |-> ZeroTime]
    /\ wStart = [t \in Threads |-> NoTime]
    /\ prevEnd = NoTime
    /\ gap = NoTime

\* a session nobody uses
SessionInit ==
    /\ SessionNew
    /\ callers = {}
    /\ devPackets = {}
    /\ tickSteps = {}
    /\ surface = {}
    /\ late = FALSE

CodecIdle ==
    /\ cframe = NoFrame
    /\ cstage = "off"
    /\ encoded = [bytes |-> <<>>, err |-> "none"]
    /\ decoded = [frame |-> NoFrame, err |-> "none"]
    /\ input = <<>>
    /\ parsed = [resp |-> NoResponse, err |-> "none"]
    /\ BuildIdle

(***************************************************************************)
(* The codec on its own: EncodeFrame applied to a frame, then DecodeFrame  *)
(* applied to what it returned.                                            *)
(***************************************************************************)
SeqsUpTo(S, n) == UNION {[1..k -> S] : k \in 0..n}

\* the sentinels, the escape followers and a plain byte
CodecBytes == {0, 1, 128, 240, 241, 242, 243}

\* AddressPCHost, AddressDefaultSlave and a sentinel
AddrBytes == {0, 253, 242}

CodecContents ==
    SeqsUpTo(CodecBytes, MaxContentsLen)
        \cup {<<240, 241, 242, 243>>, <<241, 0>>}

\* well-formed frames: a standard frame carries no addresses
CodecFrames ==
    {[Extended |-> FALSE, Destination |-> 0, Source |-> 0, Contents |-> c] :
        c \in CodecContents}
    \cup {[Extended |-> TRUE, Destination |-> d, Source |-> s, Contents |-> c] :
        d \in AddrBytes, s \in AddrBytes, c \in CodecContents}

CodecInit ==
    /\ cframe \in CodecFrames
    /\ cstage = "frame"
    /\ encoded = [bytes |-> <<>>, err |-> "none"]
    /\ decoded = [frame |-> NoFrame, err |-> "none"]
    /\ input = <<>>
    /\ parsed = [resp |-> NoResponse, err |-> "none"]
    /\ BuildIdle
    /\ SessionInit

EncodeStep ==
    /\ cstage = "frame"
    /\ encoded' = EncodeFrame(cframe)
    /\ cstage' = "encoded"
    /\ UNCHANGED <<cframe, decoded, input, parsed, buildVars, sessionVars>>

DecodeStep ==
    /\ cstage = "encoded"
    /\ encoded.err = "nil"
    /\ decoded' = DecodeFrame(encoded.bytes)
    /\ cstage' = "decoded"
    /\ UNCHANGED <<cframe, encoded, input, parsed, buildVars, sessionVars>>

CodecNext == EncodeStep \/ DecodeStep

SpecCodec == CodecInit /\ [][CodecNext]_vars

(***************************************************************************)
(* Claims about the codec (checked under SpecCodec).                       *)
(***************************************************************************)

\* C1: for every well-formed frame (standard or extended, contents of any
\* length from 0 up) whose encoding is at most 120 bytes,
\* DecodeFrame(EncodeFrame(f)) succeeds and returns f's extended flag,
\* addresses and contents.
C1_RoundTrip ==
    cstage = "decoded" => (decoded.err = "nil" /\ decoded.frame = cframe)

\* C2: an encoded frame has no raw 0xF0, 0xF1 or 0xF2 strictly between its
\* first and last byte, every 0xF3 in it is followed by a byte in 0..3, and
\* 0xF2 occurs exactly once, as the last byte.
C2_NoRawSentinel ==
    (cstage \in {"encoded", "decoded"} /\ encoded.err = "nil") =>
        LET e == encoded.bytes
        IN  /\ \A i \in 2..(Len(e) - 1) :
                  e[i] \notin {ExtendedFrameStartFlag, StandardFrameStartFlag,
                               StopFrameFlag}
            /\ \A i \in 1..Len(e) :
                  e[i] = ByteStuffingFlag => (i < Len(e) /\ e[i + 1] \in 0..3)
            /\ e[Len(e)] = StopFrameFlag
            /\ Cardinality({i \in 1..Len(e) : e[i] = StopFrameFlag}) = 1

\* an encoded frame whose contents and checksum both needed stuffing
C2_Witness ==
    /\ cstage = "encoded"
    /\ encoded.err = "nil"
    /\ cframe.Contents = <<240, 242, 243>>
    /\ cframe.Extended
    /\ cframe.Destination = 242

(***************************************************************************)
(* Command surface: src/pm5.go, src/unnamed/part_002,                      *)
(* src/pm5_proprietary_set.go                                              *)
(***************************************************************************)
CmdGetVersion == 145
CmdGetTWork == 160
CmdGetHorizontal == 161
CmdGetCalories == 163
CmdGetPace == 166
CmdGetCadence == 167
CmdGetHRCur == 176
CmdGetPower == 180
CmdSetPMCfg == 118
CmdGetPMCfg == 126
CmdGetPMData == 127
PMCmdGetFWVersion == 128
PMCmdGetHWAddress == 130
PMCmdGetWorkTime == 160
PMCmdGetWorkDistance == 163
PMCmdGetStroke500mPace == 168
PMCmdGetStrokePower == 169
PMCmdGetTotalAvg500mPace == 175
PMCmdGetTotalAvgPower == 176
PMCmdGetTotalAvgCalories == 178
PMCmdGetStrokeRate == 179
PMCmdGetErrorValue == 201
PMCmdGetRestTime == 207
PMCmdGetWorkoutType == 137
PMCmdGetWorkoutState == 141
PMCmdGetIntervalType == 142
PMCmdGetRowingState == 147
PMCmdGetWorkoutIntervalCount == 159
PMCmdGetAvgHeartRate == 182
PMCmdGetStrokeState == 191
PMCmdGetDragFactor == 193
PMCmdSetWorkoutType == 1
PMCmdSetWorkoutDuration == 3
PMCmdSetSplitDuration == 5
PMCmdSetScreenState == 19
PMCmdConfigureWorkout == 20
WorkoutTypeJustRowNoSplits == 0
WorkoutTypeJustRowSplits == 1
WorkoutTypeFixedDistNoSplits == 2
WorkoutTypeFixedDistSplits == 3
WorkoutTypeFixedTimeNoSplits == 4
WorkoutTypeFixedTimeSplits == 5
WorkoutTypeFixedCalorieSplits == 10
WorkoutTypeFixedCalsInterval == 12
DurationTypeTime == 0
DurationTypeCalories == 64
DurationTypeDistance == 128
ScreenTypeWorkout == 1
ScreenValueWorkoutPrepareToRowWorkout == 1

\* the public metric reads: the opcode each sends and the fewest data bytes
\* it accepts
PublicReads ==
    [GetVersion |-> [cmd |-> CmdGetVersion, width |-> 7],
     GetTWork |-> [cmd |-> CmdGetTWork, width |-> 3],
     GetCalories |-> [cmd |-> CmdGetCalories, width |-> 2],
     GetHorizontal |-> [cmd |-> CmdGetHorizontal, width |-> 2],
     GetPace |-> [cmd |-> CmdGetPace, width |-> 2],
     GetCadence |-> [cmd |-> CmdGetCadence, width |-> 2],
     GetPower |-> [cmd |-> CmdGetPower, width |-> 2],
     GetHeartRate |-> [cmd |-> CmdGetHRCur, width |-> 1]]

PublicReadOps == DOMAIN PublicReads

\* the vendor reads: the wrapper and inner opcode each sends, the fewest
\* data bytes it accepts, and the expression it decodes them with
VendorReads ==
    [GetFirmwareVersion |->
        [wrapper |-> CmdGetPMCfg, cmd |-> PMCmdGetFWVersion, width |-> 16, as |-> "bytes"],
     GetHardwareAddress |->
        [wrapper |-> CmdGetPMCfg, cmd |-> PMCmdGetHWAddress, width |-> 4, as |-> "hi-first"],
     GetPMWorkTime |->
        [wrapper |-> CmdGetPMData, cmd |-> PMCmdGetWorkTime, width |-> 4, as |-> "hi-first"],
     GetPMWorkDistance |->
        [wrapper |-> CmdGetPMData, cmd |-> PMCmdGetWorkDistance, width |-> 4, as |-> "hi-first"],
     GetStroke500mPace |->
        [wrapper |-> CmdGetPMData, cmd |-> PMCmdGetStroke500mPace, width |-> 4, as |-> "hi-first"],
     GetStrokePower |->
        [wrapper |-> CmdGetPMData, cmd |-> PMCmdGetStrokePower, width |-> 4, as |-> "hi-first"],
     GetStrokeRate |->
        [wrapper |-> CmdGetPMData, cmd |-> PMCmdGetStrokeRate, width |-> 1, as |-> "hi-first"],
     GetTotalAvg500mPace |->
        [wrapper |-> CmdGetPMData, cmd |-> PMCmdGetTotalAvg500mPace, width |-> 4, as |-> "hi-first"],
     GetTotalAvgPower |->
        [wrapper |-> CmdGetPMData, cmd |-> PMCmdGetTotalAvgPower, width |-> 4, as |-> "hi-first"],
     GetTotalAvgCalories |->
        [wrapper |-> CmdGetPMData, cmd |-> PMCmdGetTotalAvgCalories, width |-> 4, as |-> "hi-first"],
     GetRestTime |->
        [wrapper |-> CmdGetPMData, cmd |-> PMCmdGetRestTime, width |-> 2, as |-> "lo-first"],
     GetErrorValue |->
        [wrapper |-> CmdGetPMData, cmd |-> PMCmdGetErrorValue, width |-> 2, as |-> "hi-first"]]

VendorReadOps == DOMAIN VendorReads

\* the workout helpers: the duration tag and the two workout types of each
Workouts ==
    [StartFixedDistanceWorkout |->
        [tag |-> DurationTypeDistance, plain |-> WorkoutTypeFixedDistNoSplits,
         splits |-> WorkoutTypeFixedDistSplits],
     StartFixedTimeWorkout |->
        [tag |-> DurationTypeTime, plain |-> WorkoutTypeFixedTimeNoSplits,
         splits |-> WorkoutTypeFixedTimeSplits],
     StartFixedCalorieWorkout |->
        [tag |-> DurationTypeCalories, plain |-> WorkoutTypeJustRowNoSplits,
         splits |-> WorkoutTypeFixedCalorieSplits]]

WorkoutOps == DOMAIN Workouts

\* byte((x>>24)&0xFF), byte((x>>16)&0xFF), byte((x>>8)&0xFF), byte(x&0xFF)
U32Bytes(x) ==
    <<(x \div 16777216) % 256, (x \div 65536) % 256, (x \div 256) % 256, x % 256>>

\* the inner commands of a workout helper, had it always set the split
WorkoutCommands_SplitAlways(o, a) ==
    LET w == Workouts[o]
    IN  <<BuildCommand(PMCmdSetWorkoutType, <<IF a[2] > 0 THEN w.splits ELSE w.plain>>),
          BuildCommand(PMCmdSetWorkoutDuration, <<w.tag>> \o U32Bytes(a[1])),
          BuildCommand(PMCmdSetSplitDuration, <<w.tag>> \o U32Bytes(a[2])),
          BuildCommand(PMCmdConfigureWorkout, <<1>>),
          BuildCommand(PMCmdSetScreenState,
                       <<ScreenTypeWorkout, ScreenValueWorkoutPrepareToRowWorkout>>)>>

\* pmCmds of a workout helper called with the goal a[1] and the split a[2]
WorkoutCommands(o, a) ==
    LET w == Workouts[o]
    IN  <<BuildCommand(PMCmdSetWorkoutType, <<IF a[2] > 0 THEN w.splits ELSE w.plain>>),
          BuildCommand(PMCmdSetWorkoutDuration, <<w.tag>> \o U32Bytes(a[1]))>>
        \o (IF a[2] > 0
            THEN <<BuildCommand(PMCmdSetSplitDuration, <<w.tag>> \o U32Bytes(a[2]))>>
            ELSE <<>>)
        \o <<BuildCommand(PMCmdConfigureWorkout, <<1>>),
             BuildCommand(PMCmdSetScreenState,
                          <<ScreenTypeWorkout, ScreenValueWorkoutPrepareToRowWorkout>>)>>

\* sendPMCommand: the contents it passes to sendCommand
sendPMCommand(wrapper, pmCmds) == BuildPMCommand(wrapper, pmCmds)

(***************************************************************************)
(* Transaction engine: src/pm5.go                                          *)
(***************************************************************************)
ExchangeOps ==
    {"GetStatus", "Reset", "sendCommand", "GetWorkoutSnapshot"}
        \cup PublicReadOps \cup VendorReadOps \cup WorkoutOps
LifecycleOps == {"Connect", "Disconnect"}
Ops == ExchangeOps \cup LifecycleOps

\* the calls of the engine's own operations
BasicCalls ==
    {[op |-> o, args |-> <<>>] : o \in {"GetStatus", "Reset", "Connect", "Disconnect"}}

\* pmCmds of GetWorkoutSnapshot, in the order of the source
SnapshotCmds ==
    <<PMCmdGetWorkoutType, PMCmdGetWorkoutState, PMCmdGetIntervalType,
      PMCmdGetRowingState, PMCmdGetStrokeState, PMCmdGetWorkoutIntervalCount,
      PMCmdGetWorkTime, PMCmdGetWorkDistance, PMCmdGetStroke500mPace,
      PMCmdGetTotalAvg500mPace, PMCmdGetStrokePower, PMCmdGetTotalAvgPower,
      PMCmdGetStrokeRate, PMCmdGetDragFactor, PMCmdGetTotalAvgCalories,
      PMCmdGetAvgHeartRate>>

\* the one batch GetWorkoutSnapshot sends: the wrapper, then GetHRCur
SnapshotContents ==
    Append(BuildPMCommand(CmdGetPMData,
                          [k \in 1..Len(SnapshotCmds) |-> BuildCommand(SnapshotCmds[k], <<>>)]),
           CmdGetHRCur)

\* the contents each public operation passes to sendCommand; "sendCommand"
\* stands for an operation that locks and passes the contents a
OpContents(o, a) ==
    CASE o = "GetStatus" -> <<CmdGetStatus>>
      [] o = "sendCommand" -> a
      [] o = "GetWorkoutSnapshot" -> SnapshotContents
      [] o = "Reset" -> <<CmdReset>>
      [] o \in PublicReadOps -> <<PublicReads[o].cmd>>
      [] o \in VendorReadOps ->
            sendPMCommand(VendorReads[o].wrapper, <<BuildCommand(VendorReads[o].cmd, <<>>)>>)
      [] o \in WorkoutOps -> sendPMCommand(CmdSetPMCfg, WorkoutCommands(o, a))
      [] OTHER -> <<>>

\* what a read returns when it fails: a nil pointer or the number 0
ZeroValue(o) == IF o \in {"GetVersion", "GetTWork", "GetFirmwareVersion"} THEN <<>> ELSE 0

\* the value a public read makes of the data of the first response
PublicValue(o, d) ==
    CASE o = "GetVersion" -> <<d[1], d[2], d[3], d[4] + d[5] * 256, d[6] + d[7] * 256>>
      [] o = "GetTWork" -> <<d[1], d[2], d[3], 0>>
      [] o = "GetHeartRate" -> d[1]
      [] OTHER -> d[1] + d[2] * 256

\* a public read, after sendCommand has returned r
PublicRead(o, r) ==
    IF r.err # "nil" THEN [value |-> ZeroValue(o), err |-> r.err]
    ELSE LET cd == r.resp.CommandData
         IN  IF Len(cd) = 0 \/ Len(cd[1].Data) < PublicReads[o].width
             THEN [value |-> ZeroValue(o), err |-> "ErrInvalidResponse"]
             ELSE [value |-> PublicValue(o, cd[1].Data), err |-> "nil"]

\* the value a vendor read makes of the data of the response it has found
VendorValue(o, d) ==
    LET v == VendorReads[o]
    IN  CASE v.as = "bytes" -> SubSeq(d, 1, 16)
          [] v.as = "lo-first" -> d[1] + d[2] * 256
          [] v.width = 4 -> d[1] * 16777216 + d[2] * 65536 + d[3] * 256 + d[4]
          [] v.width = 2 -> d[1] * 256 + d[2]
          [] OTHER -> d[1]

\* a vendor read, after sendPMCommand has returned r: the loop over
\* resp.CommandData
VendorRead(o, r) ==
    IF r.err # "nil" THEN [value |-> ZeroValue(o), err |-> r.err]
    ELSE LET cd == r.resp.CommandData
             v == VendorReads[o]
             hits == {k \in 1..Len(cd) : cd[k].Command = v.cmd /\ Len(cd[k].Data) >= v.width}
         IN  IF (o = "GetFirmwareVersion" /\ Len(cd) < 2) \/ hits = {}
             THEN [value |-> ZeroValue(o), err |-> "ErrInvalidResponse"]
             ELSE LET first == CHOOSE k \in hits : \A j \in hits : k <= j
                  IN  [value |-> VendorValue(o, cd[first].Data), err |-> "nil"]

\* the switch of GetWorkoutSnapshot: the opcode that fills each field, the
\* fewest data bytes it takes, and what it makes of them ("name": the
\* String() of the enum value, "time": HundredthsToTime)
SnapshotFields ==
    {[field |-> "WorkoutType", cmd |-> PMCmdGetWorkoutType, width |-> 1, as |-> "name"],
     [field |-> "WorkoutState", cmd |-> PMCmdGetWorkoutState, width |-> 1, as |-> "name"],
     [field |-> "IntervalType", cmd |-> PMCmdGetIntervalType, width |-> 1, as |-> "name"],
     [field |-> "RowingState", cmd |-> PMCmdGetRowingState, width |-> 1, as |-> "name"],
     [field |-> "StrokeState", cmd |-> PMCmdGetStrokeState, width |-> 1, as |-> "name"],
     [field |-> "IntervalCount", cmd |-> PMCmdGetWorkoutIntervalCount, width |-> 1, as |-> "byte"],
     [field |-> "WorkTime", cmd |-> PMCmdGetWorkTime, width |-> 4, as |-> "time"],
     [field |-> "ElapsedTime", cmd |-> PMCmdGetWorkTime, width |-> 4, as |-> "time"],
     [field |-> "Distance", cmd |-> PMCmdGetWorkDistance, width |-> 4, as |-> "u32"],
     [field |-> "Pace", cmd |-> PMCmdGetStroke500mPace, width |-> 4, as |-> "time"],
     [field |-> "AvgPace", cmd |-> PMCmdGetTotalAvg500mPace, width |-> 4, as |-> "time"],
     [field |-> "Power", cmd |-> PMCmdGetStrokePower, width |-> 4, as |-> "u32"],
     [field |-> "AvgPower", cmd |-> PMCmdGetTotalAvgPower, width |-> 4, as |-> "u32"],
     [field |-> "StrokeRate", cmd |-> PMCmdGetStrokeRate, width |-> 1, as |-> "byte"],
     [field |-> "DragFactor", cmd |-> PMCmdGetDragFactor, width |-> 1, as |-> "byte"],
     [field |-> "Calories", cmd |-> PMCmdGetTotalAvgCalories, width |-> 4, as |-> "u32"],
     [field |-> "AvgHeartRate", cmd |-> PMCmdGetAvgHeartRate, width |-> 1, as |-> "byte"]}

\* BytesToUint32BE
BytesToUint32BE(b) ==
    IF Len(b) < 4 THEN 0 ELSE b[1] * 16777216 + b[2] * 65536 + b[3] * 256 + b[4]

\* what a case of the switch stores; a Duration is counted in milliseconds
SnapshotValue(f, d) ==
    CASE f.as = "name" -> <<f.field, d[1]>>
      [] f.as = "byte" -> d[1]
      [] f.as = "time" -> BytesToUint32BE(SubSeq(d, 1, 4)) * 10
      [] OTHER -> BytesToUint32BE(SubSeq(d, 1, 4))

\* the top-level response the loop takes for the heart rate
IsHeartRate(cr) == cr.Command = CmdGetHRCur /\ Len(cr.Data) >= 1

\* the loops of GetWorkoutSnapshot over resp.CommandData and PMResponses: a
\* later response overwrites what an earlier one stored; a field no response
\* fills keeps its zero value
SnapshotOf(resp) ==
    LET cd == resp.CommandData
        hr == {k \in 1..Len(cd) : IsHeartRate(cd[k])}
        Last(S) == CHOOSE x \in S : \A y \in S :
                       y[1] < x[1] \/ (y[1] = x[1] /\ y[2] <= x[2])
        Hits(f) == {x \in UNION {{<<k, j>> : j \in 1..Len(cd[k].PMResponses)} :
                                     k \in 1..Len(cd)} :
                       /\ ~IsHeartRate(cd[x[1]])
                       /\ cd[x[1]].PMResponses[x[2]].Command = f.cmd
                       /\ Len(cd[x[1]].PMResponses[x[2]].Data) >= f.width}
        Zero(f) == IF f.as = "name" THEN "" ELSE 0
    IN  [n \in {f.field : f \in SnapshotFields} \cup {"HeartRate"} |->
            IF n = "HeartRate"
            THEN IF hr = {} THEN 0
                 ELSE cd[CHOOSE k \in hr : \A j \in hr : j <= k].Data[1]
            ELSE LET f == CHOOSE g \in SnapshotFields : g.field = n
                 IN  IF Hits(f) = {} THEN Zero(f)
                     ELSE SnapshotValue(f, cd[Last(Hits(f))[1]].PMResponses[Last(Hits(f))[2]].Data)]

\* GetWorkoutSnapshot, after sendCommand has returned r
GetWorkoutSnapshot(r) ==
    IF r.err # "nil" THEN [value |-> <<>>, err |-> r.err]
    ELSE [value |-> SnapshotOf(r.resp), err |-> "nil"]

\* what operation o returns to its caller once sendCommand has returned r
OpResult(o, r) ==
    CASE o \in PublicReadOps -> PublicRead(o, r)
      [] o \in VendorReadOps -> VendorRead(o, r)
      [] o = "GetWorkoutSnapshot" -> GetWorkoutSnapshot(r)
      [] OTHER -> [value |-> 0, err |-> r.err]

\* interframeDur, as New sets it
interframeDur == MinInterframeGapMs

\* time.Since(t); for the zero Time it is the largest Duration
Since(t) == IF t = ZeroTime THEN interframeDur + MaxTime + 1 ELSE now - t

\* the boundary loop, had it kept the first start sentinel only
findFrom_FirstStart(buf, i, s) ==
    LET first == {k \in 1..Len(buf) :
                     buf[k] \in {StandardFrameStartFlag, ExtendedFrameStartFlag}}
        f == IF first = {} THEN 0 ELSE CHOOSE k \in first : \A j \in first : k <= j
        stops == {k \in 1..Len(buf) : buf[k] = StopFrameFlag /\ f > 0 /\ k > f}
    IN  [startIdx |-> f - 1,
         stopIdx |-> IF stops = {} THEN -1
                     ELSE (CHOOSE k \in stops : \A j \in stops : k <= j) - 1]

\* the boundary loop, had it not stopped at the first stop sentinel
findFrom_NoBreak(buf, i, s) ==
    LET starts == {k \in 1..Len(buf) :
                      buf[k] \in {StandardFrameStartFlag, ExtendedFrameStartFlag}}
        stops == {k \in 1..Len(buf) :
                     buf[k] = StopFrameFlag /\ \E j \in starts : j <= k}
        last == IF stops = {} THEN 0 ELSE CHOOSE k \in stops : \A j \in stops : j <= k
        before == {k \in starts : last = 0 \/ k <= last}
    IN  [startIdx |-> IF before = {} THEN -1
                      ELSE (CHOOSE k \in before : \A j \in before : j <= k) - 1,
         stopIdx |-> last - 1]

\* the loop over the packet that finds the frame boundaries, from 1-based position i;
\* s is startIdx so far; both results are Go indices, -1 when not found
RECURSIVE findFrom(_, _, _)
findFrom(buf, i, s) ==
    IF i > Len(buf) THEN [startIdx |-> s, stopIdx |-> -1]
    ELSE LET s2 == IF buf[i] \in {StandardFrameStartFlag, ExtendedFrameStartFlag}
                   THEN i - 1 ELSE s
         IN  IF buf[i] = StopFrameFlag /\ s2 >= 0
             THEN [startIdx |-> s2, stopIdx |-> i - 1]
             ELSE findFrom(buf, i + 1, s2)

findFrame(buf) == findFrom(buf, 1, -1)

Failure(e) == [resp |-> NoResponse, err |-> e]

\* the status check, had it also failed on NotReady
checkStatus_NotReady(resp) ==
    IF resp.PrevFrameStatus \in {PrevFrameStatusReject, PrevFrameStatusNotReady}
    THEN [resp |-> resp, err |-> "ErrCommandFailed"]
    ELSE [resp |-> resp, err |-> "nil"]

\* the status check, had it failed on every status but OK
checkStatus_NonOK(resp) ==
    IF resp.PrevFrameStatus # PrevFrameStatusOK
    THEN [resp |-> resp, err |-> "ErrCommandFailed"]
    ELSE [resp |-> resp, err |-> "nil"]

\* if resp.PrevFrameStatus == csafe.PrevFrameStatusReject { return resp, ErrCommandFailed }
checkStatus(resp) ==
    IF resp.PrevFrameStatus = PrevFrameStatusReject
    THEN [resp |-> resp, err |-> "ErrCommandFailed"]
    ELSE [resp |-> resp, err |-> "nil"]

\* sendCommand's tail, had it reported a frame that does not decode as an
\* invalid response
processResponse_Malformed(d) ==
    LET fb == findFrame(d)
    IN  IF fb.startIdx < 0 \/ fb.stopIdx < 0 THEN Failure("ErrInvalidResponse")
        ELSE LET dec == DecodeFrame(Slice(d, fb.startIdx + 1, fb.stopIdx + 1))
             IN  IF dec.err # "nil" THEN Failure("ErrInvalidResponse")
                 ELSE LET pr == ParseResponse(dec.frame.Contents)
                      IN  IF pr.err # "nil" THEN Failure(pr.err)
                          ELSE checkStatus(pr.resp)

\* sendCommand from the packet read to its return value (pm5.go:121-155);
\* a wrapped error is named by the error it wraps
processResponse(d) ==
    LET fb == findFrame(d)
    IN  IF fb.startIdx < 0 \/ fb.stopIdx < 0 THEN Failure("ErrInvalidResponse")
        ELSE LET dec == DecodeFrame(Slice(d, fb.startIdx + 1, fb.stopIdx + 1))
             IN  IF dec.err # "nil" THEN Failure(dec.err)
                 ELSE LET pr == ParseResponse(dec.frame.Contents)
                      IN  IF pr.err # "nil" THEN Failure(pr.err)
                          ELSE checkStatus(pr.resp)

(***************************************************************************)
(* A goroutine calls a public operation.                                   *)
(***************************************************************************)
Call(t, o) ==
    /\ t \in callers
    /\ pc[t] = "idle"
    /\ nCalls < MaxCalls
    /\ pc' = [pc EXCEPT ![t] = "lock"]
    /\ op' = [op EXCEPT ![t] = o]
    /\ \E c \in surface : c.op = o /\ args' = [args EXCEPT ![t] = c.args]
    /\ nCalls' = nCalls + 1
    /\ callNo' = [callNo EXCEPT ![t] = nCalls + 1]
    /\ acqNo' = [acqNo EXCEPT ![t] = 0]
    /\ UNCHANGED <<codecVars, progVars, now, wakeAt, data, startIdx, stopIdx, ret,
                   wStart, nAcq, guardConn, nWrites, nReads, slept, readOK,
                   lcAtLock, prevEnd, gap, traceVars, wireVars, envVars>>

\* entry into an operation, had it not waited for the mutex
Lock_NoMutex(t) ==
    /\ pc[t] = "lock"
    /\ mu' = t
    /\ pc' = [pc EXCEPT ![t] = "held"]
    /\ nAcq' = nAcq + 1
    /\ acqNo' = [acqNo EXCEPT ![t] = nAcq + 1]
    /\ lcAtLock' = [lcAtLock EXCEPT ![t] = lastCommand]
    /\ UNCHANGED <<codecVars, connected, lastCommand, now, op, args, wakeAt, data,
                   startIdx, stopIdx, ret, wStart, callNo, nCalls, guardConn,
                   nWrites, nReads, slept, readOK, prevEnd, gap, traceVars, wireVars, envVars>>

\* p.mu.Lock(): sync.Mutex lets any one of the goroutines blocked in Lock
\* proceed once the mutex is free
Lock(t) ==
    /\ pc[t] = "lock"
    /\ mu = 0
    /\ mu' = t
    /\ pc' = [pc EXCEPT ![t] = "held"]
    /\ nAcq' = nAcq + 1
    /\ acqNo' = [acqNo EXCEPT ![t] = nAcq + 1]
    /\ lcAtLock' = [lcAtLock EXCEPT ![t] = lastCommand]
    /\ UNCHANGED <<codecVars, connected, lastCommand, now, op, args, wakeAt, data,
                   startIdx, stopIdx, ret, wStart, callNo, nCalls, guardConn,
                   nWrites, nReads, slept, readOK, prevEnd, gap, traceVars, wireVars, envVars>>

HistUnchangedByLifecycle ==
    UNCHANGED <<callNo, acqNo, nCalls, nAcq, nWrites, nReads, slept, readOK,
                lcAtLock, prevEnd, gap, nDecodes, sent>>

\* Connect, had it set the flag before looking at Open's error
ConnectBody_SetOnFail(t) ==
    /\ pc[t] = "held"
    /\ op[t] = "Connect"
    /\ guardConn' = [guardConn EXCEPT ![t] = connected]
    /\ IF connected
       THEN /\ ret' = [ret EXCEPT ![t] = Failure("nil")]
            /\ UNCHANGED <<connected, devCall>>
       ELSE \E ok \in BOOLEAN :
               /\ devCall' = [devCall EXCEPT ![t] = IF ok THEN "OpenOK" ELSE "OpenFail"]
               /\ connected' = TRUE
               /\ ret' = [ret EXCEPT ![t] =
                             IF ok THEN Failure("nil") ELSE Failure("ErrOpen")]
    /\ pc' = [pc EXCEPT ![t] = "ret"]
    /\ HistUnchangedByLifecycle
    /\ UNCHANGED <<codecVars, lastCommand, mu, now, op, args, wakeAt, data, startIdx,
                   stopIdx, wStart, wireVars, envVars>>

\* Connect, under the lock: nothing to do when connected; else Open, which
\* may fail
ConnectBody(t) ==
    /\ pc[t] = "held"
    /\ op[t] = "Connect"
    /\ guardConn' = [guardConn EXCEPT ![t] = connected]
    /\ IF connected
       THEN /\ ret' = [ret EXCEPT ![t] = Failure("nil")]
            /\ UNCHANGED <<connected, devCall>>
       ELSE \E ok \in BOOLEAN :
               /\ devCall' = [devCall EXCEPT ![t] = IF ok THEN "OpenOK" ELSE "OpenFail"]
               /\ connected' = ok
               /\ ret' = [ret EXCEPT ![t] =
                             IF ok THEN Failure("nil") ELSE Failure("ErrOpen")]
    /\ pc' = [pc EXCEPT ![t] = "ret"]
    /\ HistUnchangedByLifecycle
    /\ UNCHANGED <<codecVars, lastCommand, mu, now, op, args, wakeAt, data, startIdx,
                   stopIdx, wStart, wireVars, envVars>>

\* Disconnect, under the lock: nothing to do when detached; else Close, which
\* may fail
DisconnectBody(t) ==
    /\ pc[t] = "held"
    /\ op[t] = "Disconnect"
    /\ guardConn' = [guardConn EXCEPT ![t] = connected]
    /\ IF ~connected
       THEN /\ ret' = [ret EXCEPT ![t] = Failure("nil")]
            /\ UNCHANGED <<connected, devCall>>
       ELSE \E ok \in BOOLEAN :
               /\ devCall' = [devCall EXCEPT ![t] = IF ok THEN "CloseOK" ELSE "CloseFail"]
               /\ connected' = ~ok
               /\ ret' = [ret EXCEPT ![t] =
                             IF ok THEN Failure("nil") ELSE Failure("ErrClose")]
    /\ pc' = [pc EXCEPT ![t] = "ret"]
    /\ HistUnchangedByLifecycle
    /\ UNCHANGED <<codecVars, lastCommand, mu, now, op, args, wakeAt, data, startIdx,
                   stopIdx, wStart, wireVars, envVars>>

\* sendCommand's entry without the connected guard and the gate
Guard_NoCheck(t) ==
    /\ pc[t] = "held"
    /\ op[t] \in ExchangeOps
    /\ guardConn' = [guardConn EXCEPT ![t] = connected]
    /\ pc' = [pc EXCEPT ![t] = "write"]
    /\ UNCHANGED <<codecVars, progVars, now, op, args, wakeAt, data, startIdx, stopIdx,
                   ret, wStart, callNo, acqNo, nCalls, nAcq, nWrites, nReads, slept,
                   readOK, lcAtLock, prevEnd, gap, traceVars, wireVars, envVars>>

\* sendCommand's entry without the inter-frame gate
Guard_NoGate(t) ==
    /\ pc[t] = "held"
    /\ op[t] \in ExchangeOps
    /\ guardConn' = [guardConn EXCEPT ![t] = connected]
    /\ IF ~connected
       THEN /\ ret' = [ret EXCEPT ![t] = Failure("ErrNotConnected")]
            /\ pc' = [pc EXCEPT ![t] = "ret"]
       ELSE /\ pc' = [pc EXCEPT ![t] = "write"]
            /\ UNCHANGED ret
    /\ UNCHANGED <<codecVars, progVars, now, op, args, wakeAt, data, startIdx, stopIdx,
                   wStart, callNo, acqNo, nCalls, nAcq, nWrites, nReads, slept,
                   readOK, lcAtLock, prevEnd, gap, traceVars, wireVars, envVars>>

\* sendCommand, lines 82-90: the connected guard, then the inter-frame gate
Guard(t) ==
    /\ pc[t] = "held"
    /\ op[t] \in ExchangeOps
    /\ guardConn' = [guardConn EXCEPT ![t] = connected]
    /\ IF ~connected
       THEN /\ ret' = [ret EXCEPT ![t] = Failure("ErrNotConnected")]
            /\ pc' = [pc EXCEPT ![t] = "ret"]
            /\ UNCHANGED <<wakeAt, slept>>
       ELSE LET elapsed == Since(lastCommand)
            IN  IF elapsed < interframeDur
                THEN /\ wakeAt' = [wakeAt EXCEPT ![t] = now + (interframeDur - elapsed)]
                     /\ slept' = [slept EXCEPT ![t] = TRUE]
                     /\ pc' = [pc EXCEPT ![t] = "sleep"]
                     /\ UNCHANGED ret
                ELSE /\ pc' = [pc EXCEPT ![t] = "write"]
                     /\ UNCHANGED <<ret, wakeAt, slept>>
    /\ UNCHANGED <<codecVars, progVars, now, op, args, data, startIdx, stopIdx,
                   wStart, callNo, acqNo, nCalls, nAcq, nWrites, nReads,
                   readOK, lcAtLock, prevEnd, gap, traceVars, wireVars, envVars>>

\* time.Sleep returns once the duration has passed
Wake(t) ==
    /\ pc[t] = "sleep"
    /\ now >= wakeAt[t]
    /\ pc' = [pc EXCEPT ![t] = "write"]
    /\ UNCHANGED <<codecVars, progVars, now, op, args, wakeAt, data, startIdx, stopIdx,
                   ret, wStart, histVars, traceVars, wireVars, envVars>>

\* sendCommand, lines 92-106: encode the frame and call the device's Write
WriteCall(t) ==
    /\ pc[t] = "write"
    /\ LET enc == EncodeFrame([Extended |-> FALSE, Destination |-> 0, Source |-> 0,
                               Contents |-> OpContents(op[t], args[t])])
       IN  IF enc.err # "nil"
           THEN /\ ret' = [ret EXCEPT ![t] = Failure(enc.err)]
                /\ pc' = [pc EXCEPT ![t] = "ret"]
                /\ UNCHANGED <<wStart, nWrites, sent>>
           ELSE /\ wStart' = [wStart EXCEPT ![t] = now]
                /\ nWrites' = [nWrites EXCEPT ![t] = @ + 1]
                /\ sent' = [sent EXCEPT ![t] = OpContents(op[t], args[t])]
                /\ pc' = [pc EXCEPT ![t] = "writing"]
                /\ UNCHANGED ret
    /\ UNCHANGED <<codecVars, progVars, now, op, args, wakeAt, data, startIdx, stopIdx,
                   callNo, acqNo, nCalls, nAcq, guardConn, nReads, slept, readOK,
                   lcAtLock, prevEnd, gap, nDecodes, devCall, wireVars, envVars>>

\* the return of Write, had the mutex been released there
WriteReturn_EarlyUnlock(t) ==
    /\ pc[t] = "writing"
    /\ mu' = 0
    /\ \E ok \in BOOLEAN :
          IF ok
          THEN /\ lastCommand' = now
               /\ prevEnd' = now
               /\ gap' = IF prevEnd = NoTime THEN NoTime ELSE wStart[t] - prevEnd
               /\ pending' = Append(pending, acqNo[t])
               /\ pc' = [pc EXCEPT ![t] = "read"]
               /\ UNCHANGED ret
          ELSE /\ ret' = [ret EXCEPT ![t] = Failure("ErrWrite")]
               /\ pc' = [pc EXCEPT ![t] = "ret"]
               /\ UNCHANGED <<lastCommand, prevEnd, gap, pending>>
    /\ UNCHANGED <<codecVars, connected, now, op, args, wakeAt, data, startIdx, stopIdx,
                   wStart, callNo, acqNo, nCalls, nAcq, guardConn, nWrites, nReads,
                   slept, readOK, lcAtLock, traceVars, answers, envVars>>

\* the return of Write, had the time been recorded whatever Write returned
WriteReturn_StampAlways(t) ==
    /\ pc[t] = "writing"
    /\ lastCommand' = now
    /\ \E ok \in BOOLEAN :
          IF ok
          THEN /\ prevEnd' = now
               /\ gap' = IF prevEnd = NoTime THEN NoTime ELSE wStart[t] - prevEnd
               /\ pending' = Append(pending, acqNo[t])
               /\ pc' = [pc EXCEPT ![t] = "read"]
               /\ UNCHANGED ret
          ELSE /\ ret' = [ret EXCEPT ![t] = Failure("ErrWrite")]
               /\ pc' = [pc EXCEPT ![t] = "ret"]
               /\ UNCHANGED <<prevEnd, gap, pending>>
    /\ UNCHANGED <<codecVars, connected, mu, now, op, args, wakeAt, data, startIdx, stopIdx,
                   wStart, callNo, acqNo, nCalls, nAcq, guardConn, nWrites, nReads,
                   slept, readOK, lcAtLock, traceVars, answers, envVars>>

\* sendCommand, lines 106-111: Write returns; p.lastCommand = time.Now() when
\* it succeeded
WriteReturn(t) ==
    /\ pc[t] = "writing"
    /\ \E ok \in BOOLEAN :
          IF ok
          THEN /\ lastCommand' = now
               /\ prevEnd' = now
               /\ gap' = IF prevEnd = NoTime THEN NoTime ELSE wStart[t] - prevEnd
               /\ pending' = Append(pending, acqNo[t])
               /\ pc' = [pc EXCEPT ![t] = "read"]
               /\ UNCHANGED ret
          ELSE /\ ret' = [ret EXCEPT ![t] = Failure("ErrWrite")]
               /\ pc' = [pc EXCEPT ![t] = "ret"]
               /\ UNCHANGED <<lastCommand, prevEnd, gap, pending>>
    /\ UNCHANGED <<codecVars, connected, mu, now, op, args, wakeAt, data, startIdx, stopIdx,
                   wStart, callNo, acqNo, nCalls, nAcq, guardConn, nWrites, nReads,
                   slept, readOK, lcAtLock, traceVars, answers, envVars>>

\* the transport's input queue once a Read for request id has returned no
\* packet: the device sent none, or its packet has yet to arrive
Unread(q, id) ==
    {SelectSeq(q, LAMBDA x : x # id)} \cup (IF late THEN {q} ELSE {})

\* the Read step, had a timeout sent the frame again
Read_Retry(t) ==
    /\ pc[t] = "read"
    /\ nReads' = [nReads EXCEPT ![t] = @ + 1]
    /\ \/ /\ pc' = [pc EXCEPT ![t] = IF nWrites[t] < 2 THEN "write" ELSE "ret"]
          /\ ret' = [ret EXCEPT ![t] =
                        IF nWrites[t] < 2 THEN @ ELSE Failure("ErrTimeout")]
          /\ pending' \in Unread(pending, acqNo[t])
          /\ UNCHANGED <<data, readOK, answers>>
       \/ /\ \E d \in devPackets : data' = [data EXCEPT ![t] = d]
          /\ pending # <<>>
          /\ answers' = [answers EXCEPT ![t] = Head(pending)]
          /\ pending' = Tail(pending)
          /\ readOK' = [readOK EXCEPT ![t] = TRUE]
          /\ pc' = [pc EXCEPT ![t] = "process"]
          /\ UNCHANGED ret
    /\ UNCHANGED <<codecVars, progVars, now, op, args, wakeAt, startIdx, stopIdx, wStart,
                   callNo, acqNo, nCalls, nAcq, guardConn, nWrites, slept,
                   lcAtLock, prevEnd, gap, traceVars, envVars>>

\* sendCommand, lines 114-117: the device's Read returns a packet, or fails
\* (a timeout, an I/O error)
Read(t) ==
    /\ pc[t] = "read"
    /\ nReads' = [nReads EXCEPT ![t] = @ + 1]
    /\ \/ /\ \E e \in {"ErrTimeout", "ErrReadFailed"} :
                ret' = [ret EXCEPT ![t] = Failure(e)]
          /\ pc' = [pc EXCEPT ![t] = "ret"]
          /\ pending' \in Unread(pending, acqNo[t])
          /\ UNCHANGED <<data, readOK, answers>>
       \/ /\ \E d \in devPackets : data' = [data EXCEPT ![t] = d]
          /\ pending # <<>>
          /\ answers' = [answers EXCEPT ![t] = Head(pending)]
          /\ pending' = Tail(pending)
          /\ readOK' = [readOK EXCEPT ![t] = TRUE]
          /\ pc' = [pc EXCEPT ![t] = "process"]
          /\ UNCHANGED ret
    /\ UNCHANGED <<codecVars, progVars, now, op, args, wakeAt, startIdx, stopIdx, wStart,
                   callNo, acqNo, nCalls, nAcq, guardConn, nWrites, slept,
                   lcAtLock, prevEnd, gap, traceVars, envVars>>

\* sendCommand, lines 121-155: find the frame, decode, parse, check the status
Process(t) ==
    /\ pc[t] = "process"
    /\ startIdx' = [startIdx EXCEPT ![t] = findFrame(data[t]).startIdx]
    /\ stopIdx' = [stopIdx EXCEPT ![t] = findFrame(data[t]).stopIdx]
    /\ nDecodes' = [nDecodes EXCEPT ![t] =
                       IF findFrame(data[t]).startIdx < 0 \/ findFrame(data[t]).stopIdx < 0
                       THEN @ ELSE @ + 1]
    /\ ret' = [ret EXCEPT ![t] = processResponse(data[t])]
    /\ pc' = [pc EXCEPT ![t] = "ret"]
    /\ UNCHANGED <<codecVars, progVars, now, op, args, wakeAt, data, wStart, histVars,
                   devCall, sent, wireVars, envVars>>

\* the return of an operation, had it no deferred Unlock
Return_KeepLock(t) ==
    /\ pc[t] = "ret"
    /\ pc' = [pc EXCEPT ![t] = "idle"]
    /\ op' = [op EXCEPT ![t] = "none"]
    /\ args' = [args EXCEPT ![t] = <<>>]
    /\ data' = [data EXCEPT ![t] = <<>>]
    /\ startIdx' = [startIdx EXCEPT ![t] = -1]
    /\ stopIdx' = [stopIdx EXCEPT ![t] = -1]
    /\ ret' = [ret EXCEPT ![t] = NoResult]
    /\ wakeAt' = [wakeAt EXCEPT ![t] = 0]
    /\ wStart' = [wStart EXCEPT ![t] = NoTime]
    /\ guardConn' = [guardConn EXCEPT ![t] = FALSE]
    /\ nWrites' = [nWrites EXCEPT ![t] = 0]
    /\ nReads' = [nReads EXCEPT ![t] = 0]
    /\ slept' = [slept EXCEPT ![t] = FALSE]
    /\ readOK' = [readOK EXCEPT ![t] = FALSE]
    /\ lcAtLock' = [lcAtLock EXCEPT ![t] = ZeroTime]
    /\ nDecodes' = [nDecodes EXCEPT ![t] = 0]
    /\ devCall' = [devCall EXCEPT ![t] = "none"]
    /\ sent' = [sent EXCEPT ![t] = <<>>]
    /\ answers' = [answers EXCEPT ![t] = 0]
    /\ UNCHANGED <<codecVars, connected, lastCommand, mu, now, callNo, acqNo, nCalls,
                   nAcq, prevEnd, gap, pending, envVars>>

\* the operation returns: the deferred p.mu.Unlock() runs, and the goroutine
\* drops its locals
Return(t) ==
    /\ pc[t] = "ret"
    /\ mu' = IF mu = t THEN 0 ELSE mu
    /\ pc' = [pc EXCEPT ![t] = "idle"]
    /\ op' = [op EXCEPT ![t] = "none"]
    /\ args' = [args EXCEPT ![t] = <<>>]
    /\ data' = [data EXCEPT ![t] = <<>>]
    /\ startIdx' = [startIdx EXCEPT ![t] = -1]
    /\ stopIdx' = [stopIdx EXCEPT ![t] = -1]
    /\ ret' = [ret EXCEPT ![t] = NoResult]
    /\ wakeAt' = [wakeAt EXCEPT ![t] = 0]
    /\ wStart' = [wStart EXCEPT ![t] = NoTime]
    /\ guardConn' = [guardConn EXCEPT ![t] = FALSE]
    /\ nWrites' = [nWrites EXCEPT ![t] = 0]
    /\ nReads' = [nReads EXCEPT ![t] = 0]
    /\ slept' = [slept EXCEPT ![t] = FALSE]
    /\ readOK' = [readOK EXCEPT ![t] = FALSE]
    /\ lcAtLock' = [lcAtLock EXCEPT ![t] = ZeroTime]
    /\ nDecodes' = [nDecodes EXCEPT ![t] = 0]
    /\ devCall' = [devCall EXCEPT ![t] = "none"]
    /\ sent' = [sent EXCEPT ![t] = <<>>]
    /\ answers' = [answers EXCEPT ![t] = 0]
    /\ UNCHANGED <<codecVars, connected, lastCommand, now, callNo, acqNo, nCalls,
                   nAcq, prevEnd, gap, pending, envVars>>

\* the clock advances
Tick ==
    /\ \E d \in tickSteps : now + d <= MaxTime /\ now' = now + d
    /\ UNCHANGED <<codecVars, progVars, localVars, histVars, traceVars, wireVars, envVars>>

Next ==
    \/ \E t \in Threads, o \in Ops : Call(t, o)
    \/ \E t \in Threads : Lock(t)
    \/ \E t \in Threads : ConnectBody(t)
    \/ \E t \in Threads : DisconnectBody(t)
    \/ \E t \in Threads : Guard(t)
    \/ \E t \in Threads : Wake(t)
    \/ \E t \in Threads : WriteCall(t)
    \/ \E t \in Threads : WriteReturn(t)
    \/ \E t \in Threads : Read(t)
    \/ \E t \in Threads : Process(t)
    \/ \E t \in Threads : Return(t)
    \/ Tick

\* response contents a device may send
OkContents == <<1>>
RejectContents == <<17>>

FrameOf(c) == EncodeFrame([Extended |-> FALSE, Destination |-> 0, Source |-> 0,
                           Contents |-> c]).bytes

\* several goroutines against one session; the device answers with an
\* accepted frame or a rejected frame
Init ==
    /\ CodecIdle
    /\ SessionNew
    /\ callers = Threads
    /\ devPackets = {FrameOf(OkContents), FrameOf(RejectContents)}
    /\ tickSteps = {25}
    /\ surface = BasicCalls
    /\ late = FALSE

Spec == Init /\ [][Next]_vars

(***************************************************************************)
(* One caller, and a device that answers with frames of every kind, with   *)
(* stray bytes before and after them, and with packets that hold no frame. *)
(***************************************************************************)
StdFrame(c) == [Extended |-> FALSE, Destination |-> 0, Source |-> 0, Contents |-> c]

\* scenario S3: contents 30 20, and the packet that carries them
S3Contents == <<48, 32>>
S3Packet == <<241, 48, 32, 16, 242>>

RespContents ==
    {<<>>, <<1>>, <<17>>, <<33>>, <<49>>, <<129>>, S3Contents,
     <<129, 128, 1, 5>>, <<1, 241, 1, 242>>, <<1, 126, 3, 160, 1, 7>>}

RespFrames ==
    {StdFrame(c) : c \in RespContents}
        \cup {[Extended |-> TRUE, Destination |-> 0, Source |-> 253, Contents |-> c] :
                 c \in {<<>>, <<17>>}}

Prefixes ==
    {<<>>, <<0>>, <<242>>, <<241>>, <<240, 5>>, <<241, 242>>, <<240, 5, 242>>,
     <<241, 128, 128, 242>>}

Suffixes == {<<>>, <<0>>, <<242>>, <<241, 1, 1, 242>>}

\* packets that hold no frame, or a damaged one
RawPackets ==
    {<<0>>, <<1, 1, 242>>, <<241, 1, 1>>, <<241, 128, 0, 242>>, <<241, 243, 9, 242>>,
     <<240, 1, 242>>}

ExchangePackets ==
    {pre \o EncodeFrame(f).bytes \o suf :
        pre \in Prefixes, f \in RespFrames, suf \in Suffixes} \cup RawPackets

InitExchange ==
    /\ CodecIdle
    /\ SessionNew
    /\ callers = {1}
    /\ devPackets = ExchangePackets
    /\ tickSteps = {MinInterframeGapMs}
    /\ surface = BasicCalls
    /\ late = FALSE

SpecExchange == InitExchange /\ [][Next]_vars

(***************************************************************************)
(* Claims about the transaction engine.                                    *)
(***************************************************************************)
Exchanging(t) == op[t] \in ExchangeOps /\ pc[t] # "idle"

\* C3: exchanges do not interleave: while one operation is between its Write
\* and its return, no other operation has called the device's Write or Read.
C3_OneExchange ==
    \A t \in Threads, u \in Threads :
        (t # u /\ nWrites[t] > 0) => (nWrites[u] = 0 /\ nReads[u] = 0)

\* an exchange has written and read while another operation waits for the lock
C3_Witness ==
    \E t \in Threads, u \in Threads :
        /\ t # u
        /\ nWrites[t] > 0 /\ nReads[t] > 0
        /\ pc[u] = "lock" /\ op[u] \in ExchangeOps

\* C4, as stated: requests complete in call order: of two operations in
\* progress, the one called later has written no frame.
C4_CallOrder ==
    \A a \in Threads, b \in Threads :
        (Exchanging(a) /\ Exchanging(b) /\ callNo[a] < callNo[b]) => nWrites[b] = 0

\* C4, amended: requests complete in the order in which they acquire the
\* session lock: once b holds the lock, every operation that acquired it
\* before b has returned.
C4_LockOrder ==
    \A a \in Threads, b \in Threads :
        (acqNo[a] # 0 /\ acqNo[b] # 0 /\ acqNo[a] < acqNo[b]) => pc[a] = "idle"

\* b was called before a, a acquired the lock first and has returned, and b
\* has now written its frame
C4_Witness ==
    \E a \in Threads, b \in Threads :
        /\ callNo[b] # 0 /\ callNo[b] < callNo[a]
        /\ acqNo[a] # 0 /\ acqNo[a] < acqNo[b]
        /\ op[b] \in ExchangeOps
        /\ nWrites[b] > 0

\* C5: two consecutive successful writes are at least 50 ms apart, from the
\* end of the earlier one to the start of the later one.
C5_InterframeGap == gap # NoTime => gap >= MinInterframeGapMs

\* a second successful write that began exactly 50 ms after the first ended
C5_Witness == gap = MinInterframeGapMs

\* C6: an exchange operation that finds the session not connected returns
\* ErrNotConnected and no response, without a Write, a Read or a sleep, and
\* leaves lastCommand as it was.
C6_NotConnected ==
    \A t \in Threads :
        (op[t] \in ExchangeOps /\ pc[t] \notin {"idle", "lock", "held"} /\ ~guardConn[t])
            => /\ pc[t] = "ret"
               /\ ret[t] = Failure("ErrNotConnected")
               /\ nWrites[t] = 0 /\ nReads[t] = 0
               /\ ~slept[t]
               /\ lastCommand = lcAtLock[t]

\* an exchange operation has failed on a session that is not connected, after
\* an earlier operation on the session
C6_Witness ==
    \E t \in Threads :
        /\ op[t] \in ExchangeOps /\ pc[t] = "ret" /\ ~guardConn[t]
        /\ ret[t].err = "ErrNotConnected"
        /\ acqNo[t] > 1

(***************************************************************************)
(* Claims about what an exchange returns.                                  *)
(***************************************************************************)
Returned(t) == pc[t] = "ret" /\ readOK[t]

\* C7: a parsed response is always returned; with ErrCommandFailed when its
\* prev_frame_status is Reject, with no error when it is OK, Bad or NotReady;
\* and no other return carries a response.
C7_RejectOnly ==
    \A t \in Threads :
        Returned(t) =>
            IF ret[t].resp.isNil
            THEN ret[t].err \notin {"nil", "ErrCommandFailed"}
            ELSE IF ret[t].resp.PrevFrameStatus = PrevFrameStatusReject
                 THEN ret[t].err = "ErrCommandFailed"
                 ELSE /\ ret[t].resp.PrevFrameStatus \in
                            {PrevFrameStatusOK, PrevFrameStatusBad, PrevFrameStatusNotReady}
                      /\ ret[t].err = "nil"

\* a response with status Reject is returned together with ErrCommandFailed
C7_Witness ==
    \E t \in Threads :
        /\ Returned(t)
        /\ ~ret[t].resp.isNil
        /\ ret[t].resp.PrevFrameStatus = PrevFrameStatusReject
        /\ ret[t].err = "ErrCommandFailed"

S3Commands == <<CommandResponse(32, 0, <<>>, <<>>)>>

\* C8, as stated: for the packet F1 30 20 10 F2 the exchange returns
\* ErrCommandFailed and a response with prev_frame_status Reject, state Error
\* and one truncated command response for opcode 20.
C8_S3Rejected ==
    \A t \in Threads :
        (Returned(t) /\ data[t] = S3Packet)
            => /\ ret[t].err = "ErrCommandFailed"
               /\ ret[t].resp.PrevFrameStatus = PrevFrameStatusReject
               /\ ret[t].resp.StateMachine = StateMachineError
               /\ ret[t].resp.CommandData = S3Commands

\* C8, amended: for the packet F1 30 20 10 F2 the exchange returns no error
\* and a response with status 30, prev_frame_status NotReady, state Error and
\* one truncated command response for opcode 20.
C8_S3NotReady ==
    \A t \in Threads :
        (Returned(t) /\ data[t] = S3Packet)
            => /\ ret[t].err = "nil"
               /\ ~ret[t].resp.isNil
               /\ ret[t].resp.Status = 48
               /\ ret[t].resp.PrevFrameStatus = PrevFrameStatusNotReady
               /\ ret[t].resp.StateMachine = StateMachineError
               /\ ret[t].resp.CommandData = S3Commands

\* the exchange has returned for the packet of scenario S3
C8_Witness ==
    \E t \in Threads : Returned(t) /\ data[t] = S3Packet /\ ret[t].err # "none"

StartFlags == {StandardFrameStartFlag, ExtendedFrameStartFlag}

\* 1-based position of the first start sentinel of d; 0 when it has none
FirstStartPos(d) ==
    LET starts == {k \in 1..Len(d) : d[k] \in StartFlags}
    IN  IF starts = {} THEN 0 ELSE CHOOSE k \in starts : \A j \in starts : k <= j

\* 1-based position of the first 0xF2 of d after position p; 0 when none
FirstStopAfter(d, p) ==
    LET stops == {k \in 1..Len(d) : k > p /\ d[k] = StopFrameFlag}
    IN  IF stops = {} THEN 0 ELSE CHOOSE k \in stops : \A j \in stops : k <= j

\* 1-based position of the last start sentinel of d before position p
LastStartBefore(d, p) ==
    LET starts == {k \in 1..Len(d) : k < p /\ d[k] \in StartFlags}
    IN  IF starts = {} THEN 0 ELSE CHOOSE k \in starts : \A j \in starts : j <= k

Extracted(t) == Returned(t) /\ startIdx[t] >= 0 /\ stopIdx[t] >= 0

\* C9, as stated: the decoded slice starts at the first start sentinel of the
\* packet and ends at the first 0xF2 after it.
C9_FirstStart ==
    \A t \in Threads :
        Extracted(t) =>
            /\ startIdx[t] + 1 = FirstStartPos(data[t])
            /\ stopIdx[t] + 1 = FirstStopAfter(data[t], FirstStartPos(data[t]))

\* C9, amended: a slice is decoded exactly when the packet has a start
\* sentinel and a 0xF2 after it; it ends at the first 0xF2 after the first
\* start sentinel and starts at the last start sentinel before that 0xF2.
C9_LastStart ==
    \A t \in Threads :
        Returned(t) =>
            LET first == FirstStartPos(data[t])
                stop == IF first = 0 THEN 0 ELSE FirstStopAfter(data[t], first)
            IN  IF stop = 0
                THEN ~Extracted(t) /\ ret[t] = Failure("ErrInvalidResponse")
                ELSE /\ stopIdx[t] + 1 = stop
                     /\ startIdx[t] + 1 = LastStartBefore(data[t], stop)

\* a packet with two start sentinels before its first 0xF2: the slice starts
\* at the second
C9_Witness ==
    \E t \in Threads :
        /\ Extracted(t)
        /\ FirstStartPos(data[t]) > 0
        /\ startIdx[t] + 1 > FirstStartPos(data[t])

\* no 0xF2 after a start sentinel
GoodPrefix(pre) ==
    ~\E i \in 1..Len(pre), j \in 1..Len(pre) :
        i < j /\ pre[i] \in StartFlags /\ pre[j] = StopFrameFlag

\* the exchange of t returned the parsed response of the contents of f, with
\* the error its status asks for
ReturnedResponseOf(t, f) ==
    LET pr == ParseResponse(f.Contents)
    IN  /\ pr.err = "nil"
        /\ ret[t].resp = pr.resp
        /\ ret[t].err = IF pr.resp.PrevFrameStatus = PrevFrameStatusReject
                        THEN "ErrCommandFailed" ELSE "nil"

\* the frames the device may send, each with its encoding
RespEncodings == {[frame |-> f, bytes |-> EncodeFrame(f).bytes] : f \in RespFrames}

\* the positions of d at which the byte string b lies
Occurrences(d, b) ==
    {i \in 1..(Len(d) - Len(b) + 1) : Slice(d, i, i + Len(b) - 1) = b}

\* C10, as stated: whenever the packet is some bytes, then the encoding of a
\* frame, then some bytes, the exchange returns the parsed response of that
\* frame's contents.
C10_AnyPrefix ==
    \A t \in Threads :
        Returned(t) =>
            \A e \in RespEncodings :
                \A i \in Occurrences(data[t], e.bytes) : ReturnedResponseOf(t, e.frame)

\* C10, amended: whenever the packet is a prefix in which no 0xF2 follows a
\* start sentinel, then the encoding of a frame with non-empty contents, then
\* any bytes, the exchange returns the parsed response of that frame's
\* contents (with ErrCommandFailed when its status is Reject).
C10_CleanPrefix ==
    \A t \in Threads :
        Returned(t) =>
            \A e \in RespEncodings :
                \A i \in Occurrences(data[t], e.bytes) :
                    (GoodPrefix(Slice(data[t], 1, i - 1)) /\ e.frame.Contents # <<>>)
                        => ReturnedResponseOf(t, e.frame)

\* a frame with a start sentinel before it and bytes after it was answered
C10_Witness ==
    \E t \in Threads :
        /\ Returned(t)
        /\ \E e \in RespEncodings :
              \E i \in Occurrences(data[t], e.bytes) :
                  /\ GoodPrefix(Slice(data[t], 1, i - 1))
                  /\ \E k \in 1..(i - 1) : data[t][k] \in StartFlags
                  /\ i + Len(e.bytes) - 1 < Len(data[t])
                  /\ e.frame.Contents # <<>>
                  /\ ~ret[t].resp.isNil

(***************************************************************************)
(* Claims about the errors of an exchange.                                 *)
(***************************************************************************)
\* 1-based position of the 0xF2 that ends the frame of packet d: the first
\* one after the first start sentinel; 0 when there is none
FrameStop(d) ==
    IF FirstStartPos(d) = 0 THEN 0 ELSE FirstStopAfter(d, FirstStartPos(d))

CodecFaults == {"ErrFrameTooShort", "ErrInvalidStuffByte", "ErrInvalidChecksum"}

\* C11: the exchange returns ErrInvalidResponse exactly when the packet has no
\* start sentinel or no 0xF2 after one, and then DecodeFrame is not called;
\* when the boundaries are found DecodeFrame is called once and a frame that
\* does not decode is reported with DecodeFrame's own error.
C11_MalformedOnly ==
    \A t \in Threads :
        Returned(t) =>
            LET stop == FrameStop(data[t])
            IN  /\ (ret[t].err = "ErrInvalidResponse") <=> (stop = 0)
                /\ stop = 0 => nDecodes[t] = 0
                /\ stop # 0 =>
                      LET dec == DecodeFrame(Slice(data[t],
                                     LastStartBefore(data[t], stop), stop))
                      IN  /\ nDecodes[t] = 1
                          /\ dec.err # "nil" =>
                                (ret[t].err = dec.err /\ dec.err \in CodecFaults)

\* a packet with a start sentinel and no 0xF2 after it was answered with
\* ErrInvalidResponse
C11_Witness ==
    \E t \in Threads :
        /\ Returned(t)
        /\ FirstStartPos(data[t]) > 0
        /\ FrameStop(data[t]) = 0
        /\ ret[t].err = "ErrInvalidResponse"

\* C12: an exchange calls Write at most once and Read at most once, Read only
\* after its Write succeeded, and an error, once there is one, is what the
\* call returns: nothing is sent again.
C12_NoRetry ==
    \A t \in Threads :
        /\ nWrites[t] <= 1
        /\ nReads[t] <= 1
        /\ nReads[t] > 0 =>
              (nWrites[t] = 1 /\ lastCommand # ZeroTime /\ lastCommand >= wStart[t])
        /\ ret[t].err \notin {"none", "nil"} => pc[t] = "ret"

\* an exchange whose Read timed out returns the timeout after one Write and
\* one Read
C12_Witness ==
    \E t \in Threads :
        /\ pc[t] = "ret"
        /\ ret[t].err = "ErrTimeout"
        /\ nWrites[t] = 1
        /\ nReads[t] = 1

(***************************************************************************)
(* DecodeFrame and ParseResponse applied to arbitrary bytes.               *)
(***************************************************************************)
\* escape followers, a wrapper opcode, an ordinary opcode, a start sentinel
\* and the escape byte
RawBytes == {0, 1, 2, 3, 126, 128, 241, 243}

RawBodies == SeqsUpTo(RawBytes, MaxRawLen)

\* whole records [opcode, byte_count, data]: the two of scenario S4, one
\* without data, one whose opcode is itself a wrapper's
InnerRecords ==
    {CommandResponse(179, 1, <<24>>, <<>>), CommandResponse(193, 1, <<135>>, <<>>),
     CommandResponse(1, 0, <<>>, <<>>), CommandResponse(126, 2, <<179, 0>>, <<>>)}

\* the bytes of one record, and of a list of records
Serial(r) == <<r.Command, r.ByteCount>> \o r.Data

RECURSIVE Flat(_)
Flat(rs) == IF rs = <<>> THEN <<>> ELSE Serial(Head(rs)) \o Flat(Tail(rs))

MaxInner == 2

InnerLists == SeqsUpTo(InnerRecords, MaxInner)

\* an outer opcode with the bytes of a list of records as its data
Wrapped(w, rs) == <<w, Len(Flat(rs))>> \o Flat(rs)

\* the four wrappers and an ordinary opcode
OuterOpcodes == {118, 119, 126, 127, 128}

\* contents that carry one wrapped list, alone or after another record
WrapInputs ==
    {<<1>> \o pre \o Wrapped(w, rs) :
        pre \in {<<>>, <<128, 1, 5>>}, w \in OuterOpcodes, rs \in InnerLists}

\* every status byte, alone and before an opcode
StatusInputs == {<<s>> : s \in 0..255} \cup {<<s, 128>> : s \in 0..255}

RawInputs ==
    RawBodies
        \cup {<<st>> \o b \o <<StopFrameFlag>> :
                 st \in {ExtendedFrameStartFlag, StandardFrameStartFlag},
                 b \in RawBodies}
        \cup WrapInputs
        \cup StatusInputs

RawInit ==
    /\ cframe = NoFrame
    /\ cstage = "raw"
    /\ encoded = [bytes |-> <<>>, err |-> "none"]
    /\ decoded = [frame |-> NoFrame, err |-> "none"]
    /\ input \in RawInputs
    /\ parsed = [resp |-> NoResponse, err |-> "none"]
    /\ BuildIdle
    /\ SessionInit

DecodeRaw ==
    /\ cstage = "raw"
    /\ decoded' = DecodeFrame(input)
    /\ cstage' = "rawdecoded"
    /\ UNCHANGED <<cframe, encoded, input, parsed, buildVars, sessionVars>>

ParseRaw ==
    /\ cstage = "raw"
    /\ parsed' = ParseResponse(input)
    /\ cstage' = "parsed"
    /\ UNCHANGED <<cframe, encoded, decoded, input, buildVars, sessionVars>>

RawNext == DecodeRaw \/ ParseRaw

SpecRaw == RawInit /\ [][RawNext]_vars

(***************************************************************************)
(* The frame layout, stated on positions.                                  *)
(***************************************************************************)
Bit(b, k) == (b \div (2 ^ k)) % 2

\* bit k of the XOR of the bytes of s
Parity(s, k) == Cardinality({i \in 1..Len(s) : Bit(s[i], k) = 1}) % 2

\* the XOR of the bytes of s
RefXor(s) ==
    Parity(s, 0) + 2 * Parity(s, 1) + 4 * Parity(s, 2) + 8 * Parity(s, 3)
        + 16 * Parity(s, 4) + 32 * Parity(s, 5) + 64 * Parity(s, 6)
        + 128 * Parity(s, 7)

\* d has a start sentinel first and 0xF2 last
Framed(d) == Len(d) >= 2 /\ d[1] \in StartFlags /\ d[Len(d)] = StopFrameFlag

Interior(d) == Slice(d, 2, Len(d) - 1)

\* s has an escape byte that is last or is followed by a byte outside 0..3
BadEscape(s) ==
    \E i \in 1..Len(s) :
        s[i] = ByteStuffingFlag /\ (i = Len(s) \/ s[i + 1] \notin 0..3)

\* s unstuffed, for s without a bad escape: the bytes that do not follow an
\* escape byte, each escape byte replaced by the sentinel its follower names
RefUnstuff(s) ==
    LET kept == {i \in 1..Len(s) : i = 1 \/ s[i - 1] # ByteStuffingFlag}
        nth(k) == CHOOSE i \in kept : Cardinality({j \in kept : j <= i}) = k
    IN  [k \in 1..Cardinality(kept) |->
            IF s[nth(k)] = ByteStuffingFlag
            THEN ExtendedFrameStartFlag + s[nth(k) + 1]
            ELSE s[nth(k)]]

\* bytes of an unstuffed interior before the contents
AddrLen(d) == IF d[1] = ExtendedFrameStartFlag THEN 2 ELSE 0

\* C13: when DecodeFrame succeeds the XOR of the returned contents is the
\* last unstuffed byte of the input, and when the XOR of the contents bytes
\* of a frame differs from its last unstuffed byte DecodeFrame fails with
\* ErrInvalidChecksum.
C13_Checksum ==
    (cstage = "rawdecoded" /\ Framed(input) /\ ~BadEscape(Interior(input))) =>
        LET u == RefUnstuff(Interior(input))
            n == Len(u)
        IN  /\ decoded.err = "nil" =>
                  (n >= 1 /\ RefXor(decoded.frame.Contents) = u[n])
            /\ (n > AddrLen(input)
                   /\ RefXor(Slice(u, AddrLen(input) + 1, n - 1)) # u[n])
                  => decoded.err = "ErrInvalidChecksum"

\* C16: on a non-empty slice DecodeFrame fails with ErrInvalidStartFlag when
\* the first byte is no start sentinel, and with ErrInvalidStopFlag when the
\* first byte is a start sentinel and the last byte is not 0xF2.
C16_FlagErrors ==
    (cstage = "rawdecoded" /\ Len(input) >= 1) =>
        /\ input[1] \notin StartFlags => decoded.err = "ErrInvalidStartFlag"
        /\ (input[1] \in StartFlags /\ input[Len(input)] # StopFrameFlag)
              => decoded.err = "ErrInvalidStopFlag"

\* C17: DecodeFrame accepts a standard frame whose unstuffed interior is one
\* byte and an extended frame whose unstuffed interior is three bytes (the
\* contents are empty, the checksum is 0), and fails with ErrFrameTooShort
\* only on shorter interiors.
C17_MinimumLength ==
    (cstage = "rawdecoded" /\ Framed(input) /\ ~BadEscape(Interior(input))) =>
        LET u == RefUnstuff(Interior(input))
            n == Len(u)
        IN  /\ (decoded.err = "ErrFrameTooShort") <=> (n < AddrLen(input) + 1)
            /\ (n = AddrLen(input) + 1 /\ u[n] = 0) =>
                  (decoded.err = "nil" /\ decoded.frame.Contents = <<>>)

\* C18: DecodeFrame fails with ErrInvalidStuffByte when an escape byte of the
\* interior is last or is followed by a byte outside 0..3, and when it
\* succeeds the addresses, contents and checksum are the interior with every
\* escape pair F3 0k replaced by the byte F0 + k.
C18_Unstuffing ==
    (cstage = "rawdecoded" /\ Framed(input)) =>
        /\ BadEscape(Interior(input)) => decoded.err = "ErrInvalidStuffByte"
        /\ decoded.err = "nil" =>
              /\ ~BadEscape(Interior(input))
              /\ (IF decoded.frame.Extended
                  THEN <<decoded.frame.Destination, decoded.frame.Source>>
                  ELSE <<>>)
                    \o decoded.frame.Contents
                    \o <<RefXor(decoded.frame.Contents)>>
                   = RefUnstuff(Interior(input))

(***************************************************************************)
(* The layout EncodeFrame produces.                                        *)
(***************************************************************************)
Sentinels == ExtendedFrameStartFlag..ByteStuffingFlag

\* the bytes of frame f that are stuffed: addresses (extended frames only),
\* contents, the XOR of the contents
Payload(f) ==
    (IF f.Extended THEN <<f.Destination, f.Source>> ELSE <<>>)
        \o f.Contents \o <<RefXor(f.Contents)>>

\* the length of the reference encoding of f, both sentinels counted
RefLen(f) ==
    2 + Len(Payload(f))
      + Cardinality({i \in 1..Len(Payload(f)) : Payload(f)[i] \in Sentinels})

\* e is the reference encoding of f: the start byte of f's kind, the payload
\* with exactly its sentinel-valued bytes escaped, a raw 0xF2
IsRefLayout(e, f) ==
    /\ Len(e) = RefLen(f)
    /\ e[1] = (IF f.Extended THEN ExtendedFrameStartFlag ELSE StandardFrameStartFlag)
    /\ e[Len(e)] = StopFrameFlag
    /\ \A i \in 2..(Len(e) - 1) :
          e[i] \notin {ExtendedFrameStartFlag, StandardFrameStartFlag, StopFrameFlag}
    /\ ~BadEscape(Interior(e))
    /\ RefUnstuff(Interior(e)) = Payload(f)

\* C14: EncodeFrame returns the reference layout of every frame; contents 80
\* encode to F1 80 80 F2 and contents F1 00 to F1 F3 01 00 F3 01 F2.
C14_Layout ==
    (cstage \in {"encoded", "decoded"} /\ encoded.err = "nil") =>
        /\ IsRefLayout(encoded.bytes, cframe)
        /\ cframe = StdFrame(<<128>>) => encoded.bytes = <<241, 128, 128, 242>>
        /\ cframe = StdFrame(<<241, 0>>)
              => encoded.bytes = <<241, 243, 1, 0, 243, 1, 242>>

\* the frame with contents F1 00, whose checksum F1 is stuffed, is encoded
C14_Witness ==
    /\ cstage = "encoded"
    /\ cframe = StdFrame(<<241, 0>>)
    /\ Len(encoded.bytes) = 7

(***************************************************************************)
(* EncodeFrame on frames around the length limit.                          *)
(***************************************************************************)
LongContents ==
    {[i \in 1..n |-> b] : n \in 50..MaxLongLen, b \in {1, StandardFrameStartFlag}}

LongFrames ==
    {StdFrame(c) : c \in LongContents}
        \cup {[Extended |-> TRUE, Destination |-> d, Source |-> 253, Contents |-> c] :
                 d \in {0, StopFrameFlag}, c \in LongContents}

LongInit ==
    /\ cframe \in LongFrames
    /\ cstage = "frame"
    /\ encoded = [bytes |-> <<>>, err |-> "none"]
    /\ decoded = [frame |-> NoFrame, err |-> "none"]
    /\ input = <<>>
    /\ parsed = [resp |-> NoResponse, err |-> "none"]
    /\ BuildIdle
    /\ SessionInit

SpecLong == LongInit /\ [][EncodeStep]_vars

\* C15: EncodeFrame fails with ErrFrameTooLong exactly when the stuffed
\* encoding, sentinels counted, is longer than 120 bytes; otherwise it
\* returns the encoding, also when that is exactly 120 bytes long.
C15_TooLong ==
    cstage = "encoded" =>
        IF RefLen(cframe) > 120
        THEN encoded.err = "ErrFrameTooLong"
        ELSE encoded.err = "nil" /\ Len(encoded.bytes) = RefLen(cframe)

\* an encoding of exactly 120 bytes is returned
C15_Witness ==
    /\ cstage = "encoded"
    /\ encoded.err = "nil"
    /\ Len(encoded.bytes) = 120

(***************************************************************************)
(* Claims about the session's lifecycle.                                   *)
(***************************************************************************)
\* the operation of t is past its body
Served(t) == pc[t] \notin {"idle", "lock", "held"}

\* C19: a new session is detached; Connect on a connected session and
\* Disconnect on a detached one succeed without a call of Open or Close; a
\* failed Open leaves the session detached and a failed Close leaves it
\* connected; no other operation changes the flag.
C19_Lifecycle ==
    /\ nAcq = 0 => ~connected
    /\ \A t \in Threads :
          (Served(t) /\ op[t] = "Connect") =>
              IF guardConn[t]
              THEN devCall[t] = "none" /\ ret[t].err = "nil" /\ connected
              ELSE \/ devCall[t] = "OpenOK" /\ ret[t].err = "nil" /\ connected
                   \/ devCall[t] = "OpenFail" /\ ret[t].err = "ErrOpen" /\ ~connected
    /\ \A t \in Threads :
          (Served(t) /\ op[t] = "Disconnect") =>
              IF ~guardConn[t]
              THEN devCall[t] = "none" /\ ret[t].err = "nil" /\ ~connected
              ELSE \/ devCall[t] = "CloseOK" /\ ret[t].err = "nil" /\ ~connected
                   \/ devCall[t] = "CloseFail" /\ ret[t].err = "ErrClose" /\ connected
    /\ \A t \in Threads :
          (Served(t) /\ op[t] \in ExchangeOps) =>
              (devCall[t] = "none" /\ connected = guardConn[t])

\* Close has failed on a connected session, which is still connected
C19_Witness ==
    \E t \in Threads :
        /\ pc[t] = "ret"
        /\ op[t] = "Disconnect"
        /\ devCall[t] = "CloseFail"
        /\ connected

(***************************************************************************)
(* Claims about the response parser, stated by positions in the buffer     *)
(* and not by the parser's loop.                                           *)
(***************************************************************************)
\* position in buf of the opcode of record k, the records starting at first
RECURSIVE OpcodeAt(_, _, _)
OpcodeAt(rs, first, k) ==
    IF k = 1 THEN first
    ELSE OpcodeAt(rs, first, k - 1) + 2 + rs[k - 1].ByteCount

\* the records rs cover buf from position first to its end: every record
\* but the last is whole, the last may end after its opcode or hold fewer
\* bytes than its byte count declares
Covers(buf, first, rs) ==
    /\ rs = <<>> <=> first > Len(buf)
    /\ \A k \in 1..Len(rs) :
          LET at == OpcodeAt(rs, first, k)
          IN  /\ at <= Len(buf)
              /\ rs[k].Command = buf[at]
              /\ IF at = Len(buf)
                 THEN rs[k].ByteCount = 0 /\ rs[k].Data = <<>> /\ k = Len(rs)
                 ELSE LET end == at + 1 + buf[at + 1]
                      IN  /\ rs[k].ByteCount = buf[at + 1]
                          /\ IF end > Len(buf)
                             THEN /\ rs[k].Data = Slice(buf, at + 2, Len(buf))
                                  /\ k = Len(rs)
                             ELSE /\ rs[k].Data = Slice(buf, at + 2, end)
                                  /\ (k = Len(rs)) = (end = Len(buf))

\* C20: ParseResponse returns no error on a buffer of one byte or more;
\* an opcode at the end of the buffer gives a record without data, a byte
\* count larger than the rest of the buffer gives a record with the rest,
\* and the records before it are the whole records of the buffer, at both
\* levels of a wrapper's data.
C20_ParseAbsorbs ==
    (cstage = "parsed" /\ Len(input) >= 1) =>
        /\ parsed.err = "nil"
        /\ ~parsed.resp.isNil
        /\ parsed.resp.Status = input[1]
        /\ Covers(input, 2, parsed.resp.CommandData)
        /\ \A k \in 1..Len(parsed.resp.CommandData) :
              LET r == parsed.resp.CommandData[k]
              IN  IF isPMWrapper(r.Command) /\ r.Data # <<>>
                  THEN Covers(r.Data, 1, r.PMResponses)
                  ELSE r.PMResponses = <<>>

\* a whole record, then a record that declares 3 bytes where 1 is left
C20_Witness ==
    /\ cstage = "parsed"
    /\ input = <<241, 1, 0, 128, 3, 242>>
    /\ parsed.err = "nil"
    /\ parsed.resp.CommandData =
           <<CommandResponse(1, 0, <<>>, <<>>), CommandResponse(128, 3, <<242>>, <<>>)>>

(***************************************************************************)
(* Claims about wrappers and the status byte.                              *)
(***************************************************************************)
\* the opcode, byte count and data of each record of a list
Triples(rs) == [k \in 1..Len(rs) |-> <<rs[k].Command, rs[k].ByteCount, rs[k].Data>>]

WrapperOpcodes == {118, 119, 126, 127}

TopLevel == parsed.resp.CommandData

\* C21: a top-level response with a wrapper opcode whose data is the bytes
\* of a list of whole records has those records, in that order, as its
\* nested list.
C21_NestedInOrder ==
    (cstage = "parsed" /\ parsed.err = "nil") =>
        \A k \in 1..Len(TopLevel) :
            TopLevel[k].Command \in WrapperOpcodes =>
                \A rs \in InnerLists :
                    TopLevel[k].Data = Flat(rs) =>
                        Triples(TopLevel[k].PMResponses) = Triples(rs)

\* scenario S4: 7F 06 B3 01 18 C1 01 87
C21_Witness ==
    /\ cstage = "parsed"
    /\ input = <<1, 127, 6, 179, 1, 24, 193, 1, 135>>
    /\ Len(TopLevel) = 1
    /\ TopLevel[1].PMResponses =
           <<CommandResponse(179, 1, <<24>>, <<>>), CommandResponse(193, 1, <<135>>, <<>>)>>

\* every response of the parse: the top-level ones and the nested ones
AllResponses ==
    {TopLevel[k] : k \in 1..Len(TopLevel)}
        \cup UNION {{TopLevel[k].PMResponses[j] : j \in 1..Len(TopLevel[k].PMResponses)} :
                       k \in 1..Len(TopLevel)}

NestedResponses ==
    UNION {{TopLevel[k].PMResponses[j] : j \in 1..Len(TopLevel[k].PMResponses)} :
              k \in 1..Len(TopLevel)}

C23_EveryDepth ==
    (cstage = "parsed" /\ parsed.err = "nil") =>
        \A r \in AllResponses :
            (r.Command \in WrapperOpcodes /\ r.Data # <<>>) => r.PMResponses # <<>>

\* C24: the status byte s gives status s, the toggle from bit 7, the
\* previous-frame status from bits 5 and 4 and the state from bits 3..0,
\* and the records start at the second byte.
C24_StatusByte ==
    (cstage = "parsed" /\ Len(input) >= 1) =>
        LET s == input[1]
        IN  /\ parsed.err = "nil"
            /\ parsed.resp.Status = s
            /\ parsed.resp.FrameToggle = (s >= 128)
            /\ parsed.resp.PrevFrameStatus = ((s \div 16) % 4) * 16
            /\ parsed.resp.StateMachine = s % 16
            /\ (TopLevel = <<>>) = (Len(input) = 1)
            /\ Len(input) >= 2 => TopLevel[1].Command = input[2]

\* status B9: toggle set, previous frame not ready, state 9
C24_Witness ==
    /\ cstage = "parsed"
    /\ input = <<185, 128>>
    /\ parsed.resp.FrameToggle
    /\ parsed.resp.PrevFrameStatus = PrevFrameStatusNotReady
    /\ parsed.resp.StateMachine = 9
    /\ TopLevel = <<CommandResponse(128, 0, <<>>, <<>>)>>

(***************************************************************************)
(* The command builders applied to opcodes, data and inner commands.       *)
(***************************************************************************)
\* n bytes b
Fill(n, b) == [i \in 1..n |-> b]

\* long and short opcodes, wrappers among them
BuildOpcodes == {0, 1, 127, 128, 179, 255}

\* data of a few bytes, and data around the largest count a byte holds
BuildData ==
    SeqsUpTo({0, 128, 241}, 2) \cup {Fill(n, 7) : n \in (MaxDataLen - 2)..MaxDataLen}

\* inner commands as BuildCommand returns them, and two long ones
InnerCommands ==
    {<<179>>, <<193>>, <<1, 1, 5>>, <<3, 0>>, Fill(MaxDataLen \div 2, 9),
     Fill(MaxDataLen - 1, 9)}

BuildCalls ==
    {[fn |-> "BuildCommand", cmd |-> c, data |-> x, commands |-> <<>>] :
        c \in BuildOpcodes, x \in BuildData}
    \cup {[fn |-> "BuildPMCommand", cmd |-> w, data |-> <<>>, commands |-> cs] :
        w \in WrapperOpcodes, cs \in SeqsUpTo(InnerCommands, MaxCommands)}

BuildInit ==
    /\ cframe = NoFrame
    /\ cstage = "build"
    /\ encoded = [bytes |-> <<>>, err |-> "none"]
    /\ decoded = [frame |-> NoFrame, err |-> "none"]
    /\ input = <<>>
    /\ parsed = [resp |-> NoResponse, err |-> "none"]
    /\ bcall \in BuildCalls
    /\ built = NoBuilt
    /\ SessionInit

BuildStep ==
    /\ cstage = "build"
    /\ bcall.fn = "BuildCommand"
    /\ built' = [bytes |-> BuildCommand(bcall.cmd, bcall.data), done |-> TRUE]
    /\ cstage' = "built"
    /\ UNCHANGED <<cframe, encoded, decoded, input, parsed, bcall, sessionVars>>

BuildPMStep ==
    /\ cstage = "build"
    /\ bcall.fn = "BuildPMCommand"
    /\ built' = [bytes |-> BuildPMCommand(bcall.cmd, bcall.commands), done |-> TRUE]
    /\ cstage' = "built"
    /\ UNCHANGED <<cframe, encoded, decoded, input, parsed, bcall, sessionVars>>

BuildNext == BuildStep \/ BuildPMStep

SpecBuild == BuildInit /\ [][BuildNext]_vars

\* C28: BuildCommand returns the opcode alone exactly when the opcode has
\* its high bit set and there is no data; otherwise it returns the opcode,
\* the number of data bytes, and the data.
C28_ShortOrLong ==
    (built.done /\ bcall.fn = "BuildCommand") =>
        IF bcall.cmd >= 128 /\ bcall.data = <<>>
        THEN built.bytes = <<bcall.cmd>>
        ELSE /\ Len(built.bytes) = 2 + Len(bcall.data)
             /\ built.bytes[1] = bcall.cmd
             /\ built.bytes[2] = Len(bcall.data)
             /\ \A i \in 1..Len(bcall.data) : built.bytes[2 + i] = bcall.data[i]

\* the lengths of a list of byte strings, added up
RECURSIVE SumLen(_)
SumLen(cs) == IF cs = <<>> THEN 0 ELSE SumLen(Tail(cs)) + Len(Head(cs))

\* position in the wrapper's payload where command k starts
StartOf(cs, k) == SumLen(SubSeq(cs, 1, k - 1))

\* C29: BuildPMCommand returns the wrapper, the sum of the lengths of the
\* inner commands, and the inner commands one after another in argument
\* order.
C29_WrapperLayout ==
    (built.done /\ bcall.fn = "BuildPMCommand") =>
        /\ Len(built.bytes) = 2 + SumLen(bcall.commands)
        /\ built.bytes[1] = bcall.cmd
        /\ built.bytes[2] = SumLen(bcall.commands)
        /\ \A k \in 1..Len(bcall.commands) :
              \A i \in 1..Len(bcall.commands[k]) :
                  built.bytes[2 + StartOf(bcall.commands, k) + i] = bcall.commands[k][i]

(***************************************************************************)
(* One caller that uses the reads and the workout helpers, and a device    *)
(* that answers with the opcodes they ask for: alone, after another        *)
(* response, or inside a wrapper.                                          *)
(***************************************************************************)
\* n data bytes, all different: 11, 22, 33, ...
DataOf(n) == [i \in 1..n |-> (17 * i) % 256]

\* the opcodes the reads ask for
ReadCmds ==
    {PublicReads[o].cmd : o \in PublicReadOps} \cup {VendorReads[o].cmd : o \in VendorReadOps}

\* the widths of the reads that ask for opcode c
WidthsOf(c) ==
    {PublicReads[o].width : o \in {x \in PublicReadOps : PublicReads[x].cmd = c}}
        \cup {VendorReads[o].width : o \in {x \in VendorReadOps : VendorReads[x].cmd = c}}

\* data lengths for opcode c: each width, and one byte less
LensOf(c) == WidthsOf(c) \cup {w - 1 : w \in WidthsOf(c)}

\* the wrapper a device answers a vendor read with
WrapperOf(c) ==
    IF c \in {PMCmdGetFWVersion, PMCmdGetHWAddress} THEN CmdGetPMCfg ELSE CmdGetPMData

\* response contents: status, then opcode c with n data bytes
Alone(c, n) == <<1, c, n>> \o DataOf(n)
Second(c, n) == <<1, 154, 1, 9, c, n>> \o DataOf(n)
Inside(c, n) == <<1, WrapperOf(c), n + 2, c, n>> \o DataOf(n)

SurfaceContents ==
    {<<1>>, <<17>>}
        \cup UNION {UNION {{Alone(c, n), Second(c, n), Inside(c, n)} : n \in LensOf(c)} :
                       c \in ReadCmds}

SurfacePackets == {FrameOf(c) : c \in SurfaceContents} \cup {<<0>>}

\* goals and splits of the workout helpers: 2000 with and without a split
\* of 500, and 70 F1 F2 F3
WorkoutArgs == {<<2000, 0>>, <<2000, 500>>, <<1894904563, 1894904563>>}

SurfaceCalls ==
    BasicCalls
        \cup {[op |-> o, args |-> <<>>] : o \in PublicReadOps \cup VendorReadOps}
        \cup {[op |-> o, args |-> a] : o \in WorkoutOps, a \in WorkoutArgs}

InitSurface ==
    /\ CodecIdle
    /\ SessionNew
    /\ callers = {1}
    /\ devPackets = SurfacePackets
    /\ tickSteps = {MinInterframeGapMs}
    /\ surface = SurfaceCalls
    /\ late = FALSE

SpecSurface == InitSurface /\ [][Next]_vars

(***************************************************************************)
(* Claims about the command surface.                                       *)
(***************************************************************************)
\* sendCommand has returned a response and no error to the operation of t
Answered(t) == pc[t] = "ret" /\ ret[t].err = "nil"

\* the responses of the parse of t: the top-level ones and the nested ones
Carried(t) ==
    LET cd == ret[t].resp.CommandData
    IN  {cd[k] : k \in 1..Len(cd)}
            \cup UNION {{cd[k].PMResponses[j] : j \in 1..Len(cd[k].PMResponses)} :
                           k \in 1..Len(cd)}

\* C25: a vendor read returns a value when the response carries its opcode
\* with enough data at the top level or in the nested list of a wrapper.
C25_FoundAnywhere ==
    \A t \in Threads :
        (Answered(t) /\ op[t] \in VendorReadOps) =>
            ((\E r \in Carried(t) :
                  /\ r.Command = VendorReads[op[t]].cmd
                  /\ Len(r.Data) >= VendorReads[op[t]].width)
                => OpResult(op[t], ret[t]).err = "nil")

\* C26: a public read fails with ErrInvalidResponse when no response has
\* its opcode with enough data, and a value it returns is decoded from a
\* response that has its opcode.
C26_RequestedOpcodeOnly ==
    \A t \in Threads :
        (Answered(t) /\ op[t] \in PublicReadOps) =>
            LET cd == ret[t].resp.CommandData
                res == OpResult(op[t], ret[t])
                good == {k \in 1..Len(cd) :
                            /\ cd[k].Command = PublicReads[op[t]].cmd
                            /\ Len(cd[k].Data) >= PublicReads[op[t]].width}
            IN  /\ good = {} => res.err = "ErrInvalidResponse"
                /\ res.err = "nil" =>
                      \E k \in good : res.value = PublicValue(op[t], cd[k].Data)

\* the number a byte string spells, most significant byte first
RECURSIVE BigEndian(_)
BigEndian(bs) ==
    IF bs = <<>> THEN 0
    ELSE BigEndian(SubSeq(bs, 1, Len(bs) - 1)) * 256 + bs[Len(bs)]

MultiByteReads ==
    {"GetHardwareAddress", "GetPMWorkTime", "GetPMWorkDistance", "GetStroke500mPace",
     "GetStrokePower", "GetTotalAvg500mPace", "GetTotalAvgPower", "GetTotalAvgCalories",
     "GetErrorValue", "GetRestTime"}

\* C27: the number a multi-byte vendor read returns is the big-endian
\* reading of the first bytes of the data of a response with its opcode.
C27_BigEndian ==
    \A t \in Threads :
        (Answered(t) /\ op[t] \in MultiByteReads /\ OpResult(op[t], ret[t]).err = "nil") =>
            \E r \in Carried(t) :
                /\ r.Command = VendorReads[op[t]].cmd
                /\ Len(r.Data) >= VendorReads[op[t]].width
                /\ OpResult(op[t], ret[t]).value =
                       BigEndian(SubSeq(r.Data, 1, VendorReads[op[t]].width))

\* the duration tags: distance 80, time 00, calories 40
TagOf(o) ==
    CASE o = "StartFixedDistanceWorkout" -> 128
      [] o = "StartFixedTimeWorkout" -> 0
      [] OTHER -> 64

\* c is one 76 wrapper that holds SetWorkoutType, SetWorkoutDuration with
\* the tag and the goal, SetSplitDuration with the tag and the split when
\* the split is not 0, ConfigureWorkout 1 and SetScreenState, in this order
IsBatch(c, tag, goal, split) ==
    LET k == IF split > 0 THEN 7 ELSE 0
    IN  /\ Len(c) = 19 + k
        /\ c[1] = 118 /\ c[2] = Len(c) - 2
        /\ c[3] = 1 /\ c[4] = 1
        /\ c[6] = 3 /\ c[7] = 5 /\ c[8] = tag /\ BigEndian(SubSeq(c, 9, 12)) = goal
        /\ split > 0 =>
              c[13] = 5 /\ c[14] = 5 /\ c[15] = tag /\ BigEndian(SubSeq(c, 16, 19)) = split
        /\ c[13 + k] = 20 /\ c[14 + k] = 1 /\ c[15 + k] = 1
        /\ c[16 + k] = 19 /\ c[17 + k] = 2

\* C30: a fixed-goal workout helper writes at most once, exactly once on a
\* connected session, and what it writes is the one wrapper of IsBatch.
C30_WorkoutBatch ==
    \A t \in Threads :
        op[t] \in WorkoutOps =>
            /\ nWrites[t] <= 1
            /\ (pc[t] = "ret" /\ guardConn[t]) => nWrites[t] = 1
            /\ nWrites[t] = 1 => IsBatch(sent[t], TagOf(op[t]), args[t][1], args[t][2])

\* 2000 m with splits of 500 m, answered by the device
C30_Witness ==
    \E t \in Threads :
        /\ Answered(t)
        /\ op[t] = "StartFixedDistanceWorkout"
        /\ args[t] = <<2000, 500>>
        /\ nWrites[t] = 1
        /\ sent[t] = <<118, 24, 1, 1, 3, 3, 5, 128, 0, 0, 7, 208,
                       5, 5, 128, 0, 0, 1, 244, 20, 1, 1, 19, 2, 1, 1>>

(***************************************************************************)
(* One caller whose operations pass contents of every kind to sendCommand, *)
(* short and around the length limit, against a device that answers with   *)
(* any short packet.                                                       *)
(***************************************************************************)
SendBytes == {1, ExtendedFrameStartFlag, StandardFrameStartFlag, StopFrameFlag}

\* contents whose frames are 119, 120 and 121 bytes long, with and without
\* stuffing, and short contents made of sentinels
SendContents ==
    SeqsUpTo(SendBytes \ {ExtendedFrameStartFlag}, 2)
        \cup {Fill(n, 1) : n \in (MaxLongLen - 5)..(MaxLongLen - 3)}
        \cup {Fill(n, StandardFrameStartFlag) : n \in {58, 59}}

SendPackets ==
    SeqsUpTo(SendBytes, 4) \cup {FrameOf(RejectContents), <<241, 243, 9, 242>>}

SendCalls ==
    {[op |-> "sendCommand", args |-> c] : c \in SendContents}
        \cup {[op |-> o, args |-> <<>>] : o \in LifecycleOps}

InitSend ==
    /\ CodecIdle
    /\ SessionNew
    /\ callers = {1}
    /\ devPackets = SendPackets
    /\ tickSteps = {MinInterframeGapMs}
    /\ surface = SendCalls
    /\ late = FALSE

SpecSend == InitSend /\ [][Next]_vars

\* the errors sendCommand returns before its Read
BeforeRead == {"ErrNotConnected", "ErrFrameTooLong", "ErrWrite"}

\* C31: lastCommand is assigned only at the return of a successful Write,
\* with the time of that return; an exchange that fails with ErrNotConnected,
\* ErrFrameTooLong or a write error has left it as it found it and has called
\* no Read; after a successful Write nothing changes it until the exchange
\* returns, whatever the Read and the response turn out to be.
C31_LastWrite ==
    [][/\ lastCommand' # lastCommand =>
            \E t \in Threads :
                pc[t] = "writing" /\ pc'[t] = "read" /\ lastCommand' = now
       /\ \A t \in Threads :
            (op[t] \in ExchangeOps /\ pc[t] # "ret" /\ pc'[t] = "ret") =>
                IF ret'[t].err \in BeforeRead
                THEN lastCommand' = lcAtLock[t] /\ nReads'[t] = 0
                ELSE nWrites'[t] = 1 /\ nReads'[t] = 1 /\ lastCommand' = lastCommand
       /\ \A t \in Threads :
            (pc[t] \in {"read", "process"} \/ (pc[t] = "ret" /\ nReads[t] > 0)) =>
                lastCommand' = lastCommand]_vars

\* an exchange fails with ErrFrameTooLong after an earlier exchange has written
C31_Witness ==
    \E t \in Threads :
        /\ pc[t] = "ret"
        /\ ret[t].err = "ErrFrameTooLong"
        /\ lastCommand # ZeroTime
        /\ lastCommand = lcAtLock[t]

(***************************************************************************)
(* One caller and a clock that advances in steps of 10 ms.                 *)
(***************************************************************************)
GapCalls == {[op |-> o, args |-> <<>>] : o \in LifecycleOps \cup {"GetStatus"}}

InitGap ==
    /\ CodecIdle
    /\ SessionNew
    /\ callers = {1}
    /\ devPackets = {FrameOf(OkContents)}
    /\ tickSteps = {10}
    /\ surface = GapCalls
    /\ late = FALSE

SpecGap == InitGap /\ [][Next]_vars

\* C32: an exchange that passes the connected guard e ms after the last
\* successful write sleeps 50 - e ms when e < 50, and writes only once that
\* time has passed; it goes on to write without sleeping when e >= 50 and
\* when the session has not written yet.
C32_Gate ==
    [][\A t \in Threads :
          /\ (pc[t] = "held" /\ op[t] \in ExchangeOps /\ connected /\ pc'[t] # "held") =>
                IF lastCommand = ZeroTime \/ now - lastCommand >= 50
                THEN pc'[t] = "write" /\ ~slept'[t]
                ELSE /\ pc'[t] = "sleep"
                     /\ wakeAt'[t] - now = 50 - (now - lastCommand)
          /\ (pc[t] = "sleep" /\ pc'[t] # "sleep") =>
                pc'[t] = "write" /\ now >= wakeAt[t]]_vars

\* 10 ms after the last write the caller sleeps for 40 ms
C32_Witness ==
    \E t \in Threads :
        /\ pc[t] = "sleep"
        /\ now - lastCommand = 10
        /\ wakeAt[t] - now = 40

(***************************************************************************)
(* One caller and a device whose response may arrive after the Read that   *)
(* waited for it has given up.                                             *)
(***************************************************************************)
InitLate ==
    /\ CodecIdle
    /\ SessionNew
    /\ callers = {1}
    /\ devPackets = {FrameOf(OkContents), FrameOf(RejectContents)}
    /\ tickSteps = {MinInterframeGapMs}
    /\ surface = BasicCalls
    /\ late = TRUE

SpecLate == InitLate /\ [][Next]_vars

\* C33: the packet an exchange has read is the device's response to the
\* request that this exchange wrote, also when an earlier exchange has failed
\* with a read timeout: the response to an earlier request is never taken
\* for it.
C33_OwnResponse ==
    \A t \in Threads :
        (pc[t] \in {"process", "ret"} /\ readOK[t]) => answers[t] = acqNo[t]

(***************************************************************************)
(* Two goroutines on one session, one of which may take a workout          *)
(* snapshot while the other asks for the status.                           *)
(***************************************************************************)
\* what a rower in a workout answers to the snapshot's batch: workout type
\* 3, stroke rate 24, work time 320.00 s, power 185 W, heart rate 145
SnapshotAnswer ==
    <<1>> \o Wrapped(CmdGetPMData,
                     <<CommandResponse(PMCmdGetWorkoutType, 1, <<3>>, <<>>),
                       CommandResponse(PMCmdGetStrokeRate, 1, <<24>>, <<>>),
                       CommandResponse(PMCmdGetWorkTime, 4, <<0, 0, 125, 0>>, <<>>),
                       CommandResponse(PMCmdGetStrokePower, 4, <<0, 0, 0, 185>>, <<>>)>>)
          \o <<CmdGetHRCur, 1, 145>>

SnapshotCalls ==
    {[op |-> o, args |-> <<>>] : o \in LifecycleOps \cup {"GetStatus", "GetWorkoutSnapshot"}}

InitSnapshot ==
    /\ CodecIdle
    /\ SessionNew
    /\ callers = {1, 2}
    /\ devPackets = {FrameOf(SnapshotAnswer), FrameOf(RejectContents)}
    /\ tickSteps = {MinInterframeGapMs}
    /\ surface = SnapshotCalls
    /\ late = FALSE

SpecSnapshot == InitSnapshot /\ [][Next]_vars

\* the goroutine is inside the body of its operation
InBody(t) == pc[t] \notin {"idle", "lock"}

\* C34: GetWorkoutSnapshot holds the session lock from its first statement to
\* its return, writes at most one frame, the batch of sixteen vendor reads
\* and GetHRCur, and reads at most once and only after the write; when it
\* succeeds it has written once and read once, every field comes from that
\* one response, and no other goroutine has called Write or Read meanwhile.
C34_SnapshotOneExchange ==
    \A t \in Threads :
        (op[t] = "GetWorkoutSnapshot" /\ InBody(t)) =>
            /\ mu = t
            /\ nWrites[t] <= 1 /\ nReads[t] <= nWrites[t]
            /\ nWrites[t] = 1 => sent[t] = SnapshotContents
            /\ \A u \in Threads \ {t} : nWrites[u] = 0 /\ nReads[u] = 0
            /\ (pc[t] = "ret" /\ ret[t].err = "nil") =>
                  /\ nWrites[t] = 1 /\ nReads[t] = 1
                  /\ OpResult(op[t], ret[t]).value = SnapshotOf(ParseResponse(
                         DecodeFrame(data[t]).frame.Contents).resp)

\* a snapshot has been taken from one response while the other goroutine
\* waits for the lock
C34_Witness ==
    \E t \in Threads, u \in Threads :
        /\ op[t] = "GetWorkoutSnapshot" /\ pc[t] = "ret" /\ ret[t].err = "nil"
        /\ pc[u] = "lock"
        /\ OpResult(op[t], ret[t]).value.HeartRate = 145
        /\ OpResult(op[t], ret[t]).value.WorkoutType = <<"WorkoutType", 3>>
        /\ OpResult(op[t], ret[t]).value.ElapsedTime = 320000
        /\ OpResult(op[t], ret[t]).value.Power = 185
        /\ OpResult(op[t], ret[t]).value.StrokeRate = 24
        /\ OpResult(op[t], ret[t]).value.Distance = 0

(***************************************************************************)
(* The calorie workout without splits.                                     *)
(***************************************************************************)
\* the workout type a helper has written: the data byte of SetWorkoutType
SentWorkoutType(t) == sent[t][5]

\* C35: StartFixedCalorieWorkout(calories, 0) writes a SetWorkoutType whose
\* workout type is a fixed-calorie one, and not a Just Row one.
C35_CalorieTypeWithoutSplits ==
    \A t \in Threads :
        (op[t] = "StartFixedCalorieWorkout" /\ args[t][2] = 0 /\ nWrites[t] = 1) =>
            /\ sent[t][3] = PMCmdSetWorkoutType
            /\ SentWorkoutType(t) \in
                  {WorkoutTypeFixedCalorieSplits, WorkoutTypeFixedCalsInterval}
            /\ SentWorkoutType(t) \notin
                  {WorkoutTypeJustRowNoSplits, WorkoutTypeJustRowSplits}

(***************************************************************************)
(* What the session hands to the transport.                                *)
(***************************************************************************)
\* the argument of p.device.Write: the encoding of the standard frame that
\* carries the contents of the operation
Written(t) == EncodeFrame(StdFrame(sent[t])).bytes

\* C36: what an exchange passes to Write starts with 0xF1, ends with 0xF2,
\* has no 0xF0, 0xF1 or 0xF2 in between, and is at most 120 bytes long.
C36_WholeFrameWritten ==
    \A t \in Threads :
        nWrites[t] > 0 =>
            LET w == Written(t)
            IN  /\ Len(w) >= 2 /\ Len(w) <= 120
                /\ w[1] = 241 /\ w[Len(w)] = 242
                /\ \A k \in 2..(Len(w) - 1) : w[k] \notin {240, 241, 242}

\* a frame of exactly 120 bytes is being written
C36_Witness ==
    \E t \in Threads :
        /\ pc[t] = "writing"
        /\ Len(Written(t)) = 120

(***************************************************************************)
(* Two goroutines under a fair scheduler: a goroutine that can take a step *)
(* takes it, device calls return, time passes, and a goroutine blocked in  *)
(* Lock gets the mutex when it is released again and again (sync.Mutex     *)
(* hands a starving waiter the mutex).                                     *)
(***************************************************************************)
FairCalls ==
    {[op |-> o, args |-> <<>>] : o \in LifecycleOps \cup {"GetStatus"}}
        \cup {[op |-> "sendCommand", args |-> Fill(MaxLongLen - 3, 1)]}

\* answers that are accepted, rejected, without a frame, and not decodable
FairPackets ==
    {FrameOf(OkContents), FrameOf(RejectContents), <<0>>, <<241, 243, 9, 242>>}

InitFair ==
    /\ CodecIdle
    /\ SessionNew
    /\ callers = {1, 2}
    /\ devPackets = FairPackets
    /\ tickSteps = {MinInterframeGapMs}
    /\ surface = FairCalls
    /\ late = FALSE

\* the steps of a goroutine inside an operation, but for the two that run
\* the codec
Body(t) ==
    \/ ConnectBody(t) \/ DisconnectBody(t) \/ Guard(t) \/ Wake(t)
    \/ WriteReturn(t) \/ Read(t) \/ Return(t)

\* WriteCall(t) and Process(t) are enabled exactly when the goroutine stands
\* before them, and each moves it on: weak fairness for them says that the
\* goroutine is away from "write" and from "process" again and again
Fairness ==
    /\ WF_vars(Tick)
    /\ \A t \in Threads :
          /\ WF_vars(Body(t))
          /\ SF_vars(Lock(t))
          /\ []<>(pc[t] # "write")
          /\ []<>(pc[t] # "process")

SpecFair == InitFair /\ [][Next]_vars /\ Fairness

\* the clock of the model has reached its last instant while a goroutine
\* sleeps for the inter-frame gap
Stalled ==
    \E u \in Threads :
        /\ pc[u] = "sleep"
        /\ wakeAt[u] > now
        /\ \A d \in tickSteps : now + d > MaxTime

\* C37: a goroutine outside an operation, or waiting for the lock, does not
\* hold it, so every return path has released it; an operation takes the
\* lock only at its entry, never from inside an operation; and, as long as
\* the clock runs, a goroutine waiting for the lock gets it and every
\* operation returns.
C37_LockReleased ==
    /\ [](\A t \in Threads : pc[t] \in {"idle", "lock"} => mu # t)
    /\ [][\A t \in Threads : (pc[t] # "lock" /\ pc'[t] = "lock") => pc[t] = "idle"]_vars
    /\ \A t \in Threads : (pc[t] = "lock") ~> (pc[t] = "held" \/ Stalled)
    /\ \A t \in Threads : (pc[t] # "idle") ~> (pc[t] = "idle" \/ Stalled)

\* t called first and waited for the lock while u, called later, ran an
\* exchange that failed; t holds the lock now
C37_Witness ==
    \E t \in Threads, u \in Threads :
        /\ pc[t] = "held"
        /\ callNo[t] < callNo[u]
        /\ acqNo[u] # 0 /\ acqNo[u] < acqNo[t]
        /\ pc[u] = "idle"

(***************************************************************************)
(* Connect and Disconnect against exchanges in progress.                   *)
(***************************************************************************)
\* C38: while an exchange that found the session connected is anywhere
\* between its guard and its return, the session is connected, no other
\* goroutine is inside an operation, and so none has called Open or Close
\* between that exchange's Write and its Read.
C38_LifecycleSerialized ==
    \A t \in Threads :
        (op[t] \in ExchangeOps /\ Served(t) /\ guardConn[t]) =>
            /\ connected
            /\ \A u \in Threads \ {t} :
                  pc[u] \in {"idle", "lock"} /\ devCall[u] = "none"

\* an exchange waits for its response while Disconnect waits for the lock
C38_Witness ==
    \E t \in Threads, u \in Threads :
        /\ op[t] \in ExchangeOps /\ pc[t] = "read"
        /\ op[u] = "Disconnect" /\ pc[u] = "lock"

(***************************************************************************)
(* What the session hands to the decoder.                                  *)
(***************************************************************************)
\* the argument of DecodeFrame: data[startIdx : stopIdx+1]
DecodeArg(t) == Slice(data[t], startIdx[t] + 1, stopIdx[t] + 1)

\* C39: whatever the packet, the slice an exchange passes to DecodeFrame
\* starts with 0xF0 or 0xF1, ends with 0xF2, and has none of 0xF0, 0xF1 and
\* 0xF2 in between.
C39_CleanSlice ==
    \A t \in Threads :
        Extracted(t) =>
            LET s == DecodeArg(t)
            IN  /\ Len(s) >= 2
                /\ s[1] \in {240, 241} /\ s[Len(s)] = 242
                /\ \A k \in 2..(Len(s) - 1) : s[k] \notin {240, 241, 242}

\* a packet with two start sentinels: the slice starts at the second
C39_Witness ==
    \E t \in Threads :
        /\ Extracted(t)
        /\ data[t] = <<240, 241, 1, 242>>
        /\ DecodeArg(t) = <<241, 1, 242>>

(***************************************************************************)
(* The bytes a list of records accounts for.                               *)
(***************************************************************************)
\* the records rs, written out one after the other, are the bytes of buf;
\* a last record made of an opcode alone has no byte count on the wire
Accounts(rs, buf) ==
    \/ Flat(rs) = buf
    \/ /\ rs # <<>>
       /\ rs[Len(rs)].ByteCount = 0
       /\ rs[Len(rs)].Data = <<>>
       /\ Flat(rs) = buf \o <<0>>

\* every record but the last holds as many bytes as it declares, the last
\* holds no more than it declares
WholeButLast(rs) ==
    \A k \in 1..Len(rs) :
        /\ Len(rs[k].Data) <= rs[k].ByteCount
        /\ k < Len(rs) => Len(rs[k].Data) = rs[k].ByteCount

\* C40: on contents of one byte or more ParseResponse returns, and its
\* records written out in order are the bytes after the status byte, each
\* byte once; the same holds of the nested records of a wrapper against the
\* wrapper's data; in each list only the last record may hold fewer bytes
\* than its byte count.
C40_EveryByteOnce ==
    (cstage = "parsed" /\ Len(input) >= 1) =>
        /\ ~parsed.resp.isNil
        /\ Accounts(TopLevel, Tail(input))
        /\ WholeButLast(TopLevel)
        /\ \A k \in 1..Len(TopLevel) :
              LET r == TopLevel[k]
              IN  /\ WholeButLast(r.PMResponses)
                  /\ (isPMWrapper(r.Command) /\ r.Data # <<>>) =>
                         Accounts(r.PMResponses, r.Data)

\* a wrapper that declares 3 bytes where 1 is left, and that byte is an
\* opcode without a byte count
C40_Witness ==
    /\ cstage = "parsed"
    /\ input = <<1, 126, 3, 3>>
    /\ TopLevel = <<CommandResponse(126, 3, <<3>>, <<CommandResponse(3, 0, <<>>, <<>>)>>)>>

====
